---- MODULE Spec2Model ----
(***************************************************************************)
(* Deye inverter over Solarman V5: the transport codec (lib/solarmanV5.js), *)
(* the register planner and decoder (lib/registerParser.js) and the        *)
(* polling scheduler of one device (lib/DeyeDevice.js).                     *)
(*                                                                         *)
(* Numbers decoded from registers are kept in hundredths (scale 0.1 is 10, *)
(* scale 0.01 is 1), so that (raw - offset) * scale stays an integer.      *)
(* Buffers are sequences of bytes; offsets in the operators below are the  *)
(* zero-based offsets of the JavaScript source.                            *)
(***************************************************************************)
EXTENDS Integers, Sequences, FiniteSets, TLC

\* ------------------------------------------------------------------------
\* Program constants
\* ------------------------------------------------------------------------
POLL_INTERVAL_MS == 60000
NIGHT_BACKOFF_MS == 30 * 60 * 1000
POWER_THRESHOLD_W == 5
V5_START == 165
V5_END == 21
V5_CTRL_REQUEST == 17680
V5_CTRL_RESPONSE == 5392
MODBUS_FC_READ_HOLDING == 3
MODBUS_FC_READ_INPUT == 4
MODBUS_TCP_HEADER_LEN == 7
MODBUS_FC_WRITE_SINGLE == 6
DEFAULT_SLAVE_ID == 1
DEFAULT_MAX_COUNT == 100

\* ------------------------------------------------------------------------
\* Bounds of the model
\* ------------------------------------------------------------------------
\* number of clock steps the model lets pass
MaxSteps == 2
\* number of settings changes (onSettings) the model lets happen
MaxSettings == 1
\* number of poll cycles the model lets start
MaxPolls == 3
\* number of exchanges the model lets a client start when it is driven directly
MaxExchanges == 4
\* largest register address and largest batch size the planner is given
MaxAddr == 5
MaxBatch == 3

\* ------------------------------------------------------------------------
\* Buffers
\* ------------------------------------------------------------------------
Byte(b, i) == b[i + 1]

\* buf.readUInt16BE(off); the caller checks the range first
U16BE(b, off) == Byte(b, off) * 256 + Byte(b, off + 1)

\* buf.readUInt16LE(off)
U16LE(b, off) == Byte(b, off) + Byte(b, off + 1) * 256

\* buf.slice(from, to) for 0 <= from, to <= length
Slice(b, from, to) == IF to <= from THEN << >> ELSE SubSeq(b, from + 1, to)

U16BEBytes(w) == << (w \div 256) % 256, w % 256 >>
U16LEBytes(w) == << w % 256, (w \div 256) % 256 >>

\* the bytes of a sequence of 16-bit words, each high byte first
WordsBE(ws) ==
    [i \in 1..2 * Len(ws) |-> IF i % 2 = 1 THEN (ws[(i + 1) \div 2] \div 256) % 256
                                            ELSE ws[i \div 2] % 256]

RECURSIVE SumBytes(_, _, _)
SumBytes(b, from, to) ==
    IF from >= to THEN 0
    ELSE IF to = from + 1 THEN Byte(b, from)
    ELSE LET mid == (from + to) \div 2
         IN  SumBytes(b, from, mid) + SumBytes(b, mid, to)

\* a checksum that takes in the start marker
ChecksumFromStart(frame) == SumBytes(frame, 0, Len(frame) - 2) % 256

\* v5Checksum: sum(frame[1 .. len-3]) & 0xFF
v5Checksum(frame) == SumBytes(frame, 1, Len(frame) - 2) % 256

\* ------------------------------------------------------------------------
\* Requests: crc16, buildModbusRtuFrame, buildModbusTcpFrame, encodeV5Frame
\* ------------------------------------------------------------------------
\* a ^ b on non-negative integers
RECURSIVE Xor(_, _)
Xor(a, b) ==
    IF a = 0 THEN b
    ELSE IF b = 0 THEN a
    ELSE ((a + b) % 2) + 2 * Xor(a \div 2, b \div 2)

\* the inner loop of crc16: eight shifts, each with the polynomial 0xa001
\* when the bit shifted out is set
RECURSIVE CrcShift(_, _)
CrcShift(crc, j) ==
    IF j = 8 THEN crc
    ELSE CrcShift(IF crc % 2 = 1 THEN Xor(crc \div 2, 40961) ELSE crc \div 2, j + 1)

\* the outer loop of crc16 from byte i on; crc is a 16-bit value throughout
\* (testing it first keeps the evaluation of the running value strict)
RECURSIVE CrcFrom(_, _, _)
CrcFrom(buf, i, crc) ==
    IF crc > 65535 \/ i >= Len(buf) THEN crc
    ELSE CrcFrom(buf, i + 1, CrcShift(Xor(crc, Byte(buf, i)), 0))

\* the same loops started from 0 in place of 0xffff
CrcInitZero(buf) == CrcFrom(buf, 0, 0)

crc16(buf) == CrcFrom(buf, 0, 65535)

buildModbusRtuFrame(slaveId, fc, register, valueOrCount) ==
    LET frame == << slaveId % 256, fc % 256 >> \o U16BEBytes(register) \o U16BEBytes(valueOrCount)
    IN  frame \o U16LEBytes(crc16(frame))

buildModbusTcpFrame(transactionId, unitId, fc, register, valueOrCount) ==
    LET pdu == << fc % 256 >> \o U16BEBytes(register) \o U16BEBytes(valueOrCount)
        mbap == U16BEBytes(transactionId % 65536) \o U16BEBytes(0) \o U16BEBytes(1 + Len(pdu))
                  \o << unitId % 256 >>
    IN  mbap \o pdu

\* buf.writeUInt32LE(v): a 32-bit value is kept as its 16-bit words, low word first
U32LEBytes(limbs) == U16LEBytes(limbs[1]) \o U16LEBytes(limbs[2])

\* the checksum is computed while the last two bytes of the buffer are still 0
encodeV5Frame(modbusFrame, loggerSerial, sequence) ==
    LET payloadLen == 15 + Len(modbusFrame)
        header == << V5_START >> \o U16LEBytes(payloadLen) \o U16LEBytes(V5_CTRL_REQUEST)
                    \o U16LEBytes(sequence) \o U32LEBytes(loggerSerial)
        prefix == << 2 >> \o [i \in 1..14 |-> 0]
        buf == header \o prefix \o modbusFrame \o << 0, 0 >>
    IN  SubSeq(buf, 1, Len(buf) - 2) \o << v5Checksum(buf), V5_END >>

\* ------------------------------------------------------------------------
\* decodeV5Frame: the Modbus ADU of a V5 response, or the error it throws
\* ------------------------------------------------------------------------
Thrown(msg) == [ok |-> FALSE, err |-> msg]

\* a decoder that unwraps whatever it is given
DecodeUnchecked(v5Frame) == [ok |-> TRUE, adu |-> Slice(v5Frame, 26, Len(v5Frame) - 2)]

decodeV5Frame(v5Frame) ==
    IF Len(v5Frame) = 0 \/ Byte(v5Frame, 0) # V5_START THEN Thrown("Invalid V5 start byte")
    ELSE IF Byte(v5Frame, Len(v5Frame) - 1) # V5_END THEN Thrown("Invalid V5 end byte")
    ELSE IF Len(v5Frame) < 5 THEN Thrown("ERR_OUT_OF_RANGE")
    ELSE IF U16LE(v5Frame, 3) # V5_CTRL_RESPONSE THEN Thrown("Unexpected V5 control code")
    ELSE LET payloadLen == U16LE(v5Frame, 1)
             modbusStart == 25
             modbusEnd == 11 + payloadLen
         IN  IF modbusEnd > Len(v5Frame) - 2 THEN Thrown("V5 payload length out of bounds")
             ELSE LET modbus == Slice(v5Frame, modbusStart, modbusEnd)
                      n == Len(modbus)
                  IN  [ok |-> TRUE,
                       adu |-> IF n >= 2 /\ modbus[n - 1] = 0 /\ modbus[n] = 0
                                  THEN Slice(modbus, 0, n - 2)
                                  ELSE modbus]

\* ------------------------------------------------------------------------
\* looksLikeModbusTcp / parseRegistersAuto
\* ------------------------------------------------------------------------
looksLikeModbusTcp(frame) ==
    /\ Len(frame) >= MODBUS_TCP_HEADER_LEN + 2
    /\ U16BE(frame, 2) = 0
    /\ U16BE(frame, 4) >= 2

\* for (i = 0; i < byteCount; i += 2) values.push(adu.readUInt16BE(start + i))
ReadWords(adu, start, byteCount) ==
    LET n == (byteCount + 1) \div 2
    IN  IF start + 2 * n > Len(adu)
           THEN Thrown("ERR_OUT_OF_RANGE")
           ELSE [ok |-> TRUE, values |-> [k \in 1..n |-> U16BE(adu, start + 2 * (k - 1))]]

\* a parser without the test of the exception bit
ParseWithoutExceptionTest(adu, expectedFc) ==
    IF looksLikeModbusTcp(adu)
       THEN IF Byte(adu, 7) # expectedFc THEN Thrown("Unexpected Modbus TCP FC")
            ELSE ReadWords(adu, 9, Byte(adu, 8))
    ELSE IF Len(adu) < 5 THEN Thrown("Invalid Modbus RTU frame (too short)")
    ELSE IF Byte(adu, 1) # expectedFc THEN Thrown("Unexpected Modbus RTU FC")
    ELSE ReadWords(adu, 3, Byte(adu, 2))

parseRegistersAuto(adu, expectedFc) ==
    IF looksLikeModbusTcp(adu)
       THEN LET fc == Byte(adu, 7)
            IN  IF (fc \div 128) % 2 = 1
                   THEN [ok |-> FALSE, err |-> "Modbus TCP exception code", code |-> Byte(adu, 8)]
                ELSE IF fc # expectedFc THEN Thrown("Unexpected Modbus TCP FC")
                ELSE ReadWords(adu, 9, Byte(adu, 8))
    ELSE IF Len(adu) < 5 THEN Thrown("Invalid Modbus RTU frame (too short)")
    ELSE LET fc == Byte(adu, 1)
         IN  IF (fc \div 128) % 2 = 1
                THEN [ok |-> FALSE, err |-> "Modbus RTU exception code", code |-> Byte(adu, 2)]
             ELSE IF fc # expectedFc THEN Thrown("Unexpected Modbus RTU FC")
             ELSE ReadWords(adu, 3, Byte(adu, 2))

\* ------------------------------------------------------------------------
\* Register definitions and decodeRegister
\* ------------------------------------------------------------------------
\* def.scale ?? 1 (in hundredths), def.offset ?? 0, def.fc ?? 3
ScaleOf(def) == IF "scale" \in DOMAIN def THEN def.scale ELSE 100
OffsetOf(def) == IF "offset" \in DOMAIN def THEN def.offset ELSE 0
FcOf(def) == IF "fc" \in DOMAIN def THEN def.fc ELSE 3

Null == [t |-> "null"]
Num(n) == [t |-> "number", n |-> n]
Label(s) == [t |-> "label", s |-> s]
Ascii(cs) == [t |-> "ascii", chars |-> cs]
Bool(b) == [t |-> "boolean", b |-> b]

\* The accumulation raw += (registerMap.get(regs[i]) & 0xffff) * Math.pow(2, 16 * i)
\* is kept as its 16-bit limbs, low word first (exact in a double up to three
\* registers); IntOf gives the number where it fits the checker's integers.
Accumulate(regs, registerMap) == [i \in 1..Len(regs) |-> registerMap[regs[i]] % 65536]

\* raw >>> 0: the low 32 bits
ToUint32(limbs) == IF Len(limbs) > 2 THEN SubSeq(limbs, 1, 2) ELSE limbs

RECURSIVE IntOf(_)
IntOf(limbs) == IF limbs = << >> THEN 0 ELSE Head(limbs) + 65536 * IntOf(Tail(limbs))

\* a sign extension that is one short of the two's complement
OnesComplement(limbs) ==
    IF limbs # << >> /\ limbs[Len(limbs)] >= 32768
       THEN 0 - IntOf([i \in 1..Len(limbs) |-> 65535 - limbs[i]])
       ELSE IntOf(limbs)

\* if (raw >= threshold) raw -= wrap, with wrap = 2^(16 n), threshold = wrap / 2
SignExtend(limbs) ==
    IF limbs # << >> /\ limbs[Len(limbs)] >= 32768
       THEN (0 - IntOf([i \in 1..Len(limbs) |-> 65535 - limbs[i]])) - 1
       ELSE IntOf(limbs)

\* a lookup that has no value for a raw value outside its keys
RECURSIVE LookupOrNull(_, _, _)
LookupOrNull(lookup, raw, i) ==
    IF i > Len(lookup) THEN Null
    ELSE IF raw \in lookup[i].key THEN Label(lookup[i].value)
    ELSE LookupOrNull(lookup, raw, i + 1)

RECURSIVE LookupValue(_, _, _)
LookupValue(lookup, raw, i) ==
    IF i > Len(lookup) THEN [t |-> "unknown", raw |-> raw]
    ELSE IF raw \in lookup[i].key THEN Label(lookup[i].value)
    ELSE LookupValue(lookup, raw, i + 1)

\* String.prototype.trim on a string of char codes below 256
WhiteSpace == {9, 10, 11, 12, 13, 32, 160}

RECURSIVE TrimLeft(_)
TrimLeft(cs) == IF cs # << >> /\ Head(cs) \in WhiteSpace THEN TrimLeft(Tail(cs)) ELSE cs

\* a trim that leaves the end of the string alone
KeepRight(cs) == cs

RECURSIVE TrimRight(_)
TrimRight(cs) ==
    IF cs # << >> /\ cs[Len(cs)] \in WhiteSpace THEN TrimRight(SubSeq(cs, 1, Len(cs) - 1)) ELSE cs

RECURSIVE AsciiChars(_, _, _)
AsciiChars(regs, registerMap, i) ==
    IF i > Len(regs) THEN << >>
    ELSE LET r == registerMap[regs[i]]
             hi == (r \div 256) % 256
             lo == r % 256
         IN  (IF hi # 0 THEN << hi >> ELSE << >>) \o (IF lo # 0 THEN << lo >> ELSE << >>)
                \o AsciiChars(regs, registerMap, i + 1)

decodeRegister(def, registerMap) ==
    LET regs == def.registers
        scale == ScaleOf(def)
        offset == OffsetOf(def)
    IN  IF \E i \in 1..Len(regs) : regs[i] \notin DOMAIN registerMap THEN Null
        ELSE IF def.rule \in {1, 3}
           THEN LET raw == IntOf(ToUint32(Accumulate(regs, registerMap)))
                IN  IF "lookup" \in DOMAIN def
                       THEN LookupValue(def.lookup, raw, 1)
                       ELSE Num((raw - offset) * scale)
        ELSE IF def.rule \in {2, 4}
           THEN LET raw == SignExtend(Accumulate(regs, registerMap))
                IN  Num((raw - offset) * scale)
        ELSE IF def.rule = 5 THEN Ascii(TrimRight(TrimLeft(AsciiChars(regs, registerMap, 1))))
        ELSE IF def.rule = 6 THEN [t |-> "hex", words |-> [i \in 1..Len(regs) |-> registerMap[regs[i]]]]
        ELSE IF def.rule = 7
           THEN [t |-> "version",
                 nibbles |-> [i \in 1..Len(regs) |->
                                LET r == registerMap[regs[i]]
                                IN  << (r \div 4096) % 16, (r \div 256) % 16, (r \div 16) % 16, r % 16 >>]]
        ELSE Null

\* ------------------------------------------------------------------------
\* buildReadRequests
\* ------------------------------------------------------------------------
\* the function codes in order of first appearance (Map insertion order)
RECURSIVE FcOrder(_, _, _)
FcOrder(definitions, i, seen) ==
    IF i > Len(definitions) THEN seen
    ELSE LET fc == FcOf(definitions[i])
         IN  FcOrder(definitions, i + 1,
                     IF \E k \in 1..Len(seen) : seen[k] = fc THEN seen ELSE Append(seen, fc))

\* byFc.get(fc): the addresses of the definitions of one function code
AddrSet(definitions, fc) ==
    UNION {{definitions[i].registers[k] : k \in 1..Len(definitions[i].registers)} :
              i \in {j \in 1..Len(definitions) : FcOf(definitions[j]) = fc}}

\* [...addrSet].sort((a, b) => a - b)
RECURSIVE SortAsc(_)
SortAsc(S) ==
    IF S = {} THEN << >>
    ELSE LET m == CHOOSE x \in S : \A y \in S : x <= y
         IN  << m >> \o SortAsc(S \ {m})

\* a merge loop that lets a range grow to maxCount + 1 registers
RECURSIVE MergeWide(_, _, _, _, _, _)
MergeWide(fc, sorted, i, start, end, maxCount) ==
    IF i > Len(sorted) THEN << [fc |-> fc, start |-> start, count |-> end - start + 1] >>
    ELSE IF sorted[i] - start <= maxCount
       THEN MergeWide(fc, sorted, i + 1, start, sorted[i], maxCount)
       ELSE << [fc |-> fc, start |-> start, count |-> end - start + 1] >>
               \o MergeWide(fc, sorted, i + 1, sorted[i], sorted[i], maxCount)

\* a merge loop that closes the range at every gap in the addresses
RECURSIVE MergeAdjacent(_, _, _, _, _, _)
MergeAdjacent(fc, sorted, i, start, end, maxCount) ==
    IF i > Len(sorted) THEN << [fc |-> fc, start |-> start, count |-> end - start + 1] >>
    ELSE IF sorted[i] - start < maxCount /\ sorted[i] = end + 1
       THEN MergeAdjacent(fc, sorted, i + 1, start, sorted[i], maxCount)
       ELSE << [fc |-> fc, start |-> start, count |-> end - start + 1] >>
               \o MergeAdjacent(fc, sorted, i + 1, sorted[i], sorted[i], maxCount)

\* the merge loop over one function code's sorted addresses
RECURSIVE MergeRanges(_, _, _, _, _, _)
MergeRanges(fc, sorted, i, start, end, maxCount) ==
    IF i > Len(sorted) THEN << [fc |-> fc, start |-> start, count |-> end - start + 1] >>
    ELSE IF sorted[i] - start < maxCount
       THEN MergeRanges(fc, sorted, i + 1, start, sorted[i], maxCount)
       ELSE << [fc |-> fc, start |-> start, count |-> end - start + 1] >>
               \o MergeRanges(fc, sorted, i + 1, sorted[i], sorted[i], maxCount)

RECURSIVE RequestsOf(_, _, _, _)
RequestsOf(definitions, fcs, i, maxCount) ==
    IF i > Len(fcs) THEN << >>
    ELSE LET sorted == SortAsc(AddrSet(definitions, fcs[i]))
         IN  MergeRanges(fcs[i], sorted, 2, sorted[1], sorted[1], maxCount)
                \o RequestsOf(definitions, fcs, i + 1, maxCount)

buildReadRequests(definitions, maxCount) ==
    RequestsOf(definitions, FcOrder(definitions, 1, << >>), 1, maxCount)

\* ------------------------------------------------------------------------
\* The register catalog of the modelled device: definitions of STRING_BASE
\* (the addresses span two read requests of at most 100 registers), and one
\* definition with a rule decodeRegister does not know, whose value is absent
\* ------------------------------------------------------------------------
Definitions ==
    << [name |-> "Device Serial", rule |-> 5, registers |-> << 3, 4, 5, 6, 7 >>,
        homeyCapability |-> ""],
       [name |-> "Device State", rule |-> 1, registers |-> << 59 >>,
        lookup |-> << [key |-> {0}, value |-> "Standby"], [key |-> {1}, value |-> "Self-test"],
                      [key |-> {2}, value |-> "Normal"], [key |-> {3}, value |-> "Alarm"],
                      [key |-> {4}, value |-> "Fault"] >>,
        homeyCapability |-> "alarm_generic"],
       [name |-> "Total Production", rule |-> 3, registers |-> << 63, 64 >>, scale |-> 10,
        homeyCapability |-> "meter_power"],
       [name |-> "Reserved", rule |-> 8, registers |-> << 79 >>,
        homeyCapability |-> "measure_frequency"],
       [name |-> "Output AC Power", rule |-> 3, registers |-> << 80, 81 >>, scale |-> 10,
        homeyCapability |-> "measure_power"],
       [name |-> "PV1 Voltage", rule |-> 1, registers |-> << 109 >>, scale |-> 10,
        homeyCapability |-> "measure_voltage.pv1"],
       [name |-> "PV1 Current", rule |-> 1, registers |-> << 110 >>, scale |-> 10,
        homeyCapability |-> "measure_current.pv1"] >>

\* the capabilities the paired device has (hasCapability); it lacks
\* measure_current.pv1
DeviceCaps ==
    {"alarm_generic", "meter_power", "measure_power", "measure_voltage.pv1", "measure_frequency"}

\* the capabilities _applyZeros sets to 0
ZeroCaps ==
    {"measure_power",
     "measure_voltage.pv1", "measure_current.pv1", "measure_voltage.pv2", "measure_current.pv2",
     "measure_voltage.pv3", "measure_current.pv3", "measure_voltage.pv4", "measure_current.pv4",
     "measure_voltage.grid", "measure_current.grid", "measure_frequency", "measure_temperature"}

\* the energy counters
CumulativeCaps == {"meter_power", "meter_power.today"}

\* readAll: const requests = buildReadRequests(definitions)
Requests == buildReadRequests(Definitions, DEFAULT_MAX_COUNT)

\* ------------------------------------------------------------------------
\* The inverter and its logger: register images and the frames they answer
\* ------------------------------------------------------------------------
\* two register images: 1, the inverter produces 7788.1 W (state Normal);
\* 2, it reports a fault with a trickle of 3.0 W
Images == {1, 2}

ImageWord(k, addr) ==
    CASE addr \in 3..7 -> 12849 + addr
      [] addr = 59 -> (IF k = 1 THEN 2 ELSE 4)
      [] addr = 63 -> 5000
      [] addr = 80 -> (IF k = 1 THEN 12345 ELSE 30)
      [] addr = 81 -> (IF k = 1 THEN 1 ELSE 0)
      [] addr = 109 -> 3000
      [] addr = 110 -> 50
      [] OTHER -> 0

ImageWords(k, req) == [i \in 1..req.count |-> ImageWord(k, req.start + i - 1)]

\* Modbus RTU read response; the client never reads the CRC bytes
RtuResponse(fc, words) ==
    << DEFAULT_SLAVE_ID, fc, 2 * Len(words) >> \o WordsBE(words) \o << 171, 205 >>

\* Modbus TCP read response (MBAP header, then the PDU)
TcpResponse(fc, words) ==
    << 0, 1, 0, 0 >> \o U16BEBytes(3 + 2 * Len(words)) \o << DEFAULT_SLAVE_ID, fc, 2 * Len(words) >>
        \o WordsBE(words)

RtuException(fc, code) == << DEFAULT_SLAVE_ID, fc + 128, code, 171, 205 >>
TcpException(fc, code) == << 0, 1, 0, 0, 0, 3, DEFAULT_SLAVE_ID, fc + 128, code >>

\* a V5 response frame: header, 14-byte response prefix, ADU, checksum, end
V5Frame(ctrl, adu) ==
    LET body == U16LEBytes(14 + Len(adu)) \o U16LEBytes(ctrl) \o << 7, 0 >>
                  \o << 1, 2, 3, 4 >> \o << 2, 1 >> \o [i \in 1..12 |-> 0] \o adu
        open == << V5_START >> \o body \o << 0, V5_END >>
    IN  << V5_START >> \o body \o << v5Checksum(open), V5_END >>

ResponseFrames(req) ==
    {V5Frame(V5_CTRL_RESPONSE, RtuResponse(req.fc, ImageWords(k, req))) : k \in Images}
      \cup {V5Frame(V5_CTRL_RESPONSE, TcpResponse(req.fc, ImageWords(k, req))) : k \in Images}
      \cup {V5Frame(V5_CTRL_RESPONSE, RtuException(req.fc, 2)),
            V5Frame(V5_CTRL_RESPONSE, TcpException(req.fc, 2)),
            V5Frame(V5_CTRL_REQUEST, RtuResponse(req.fc, ImageWords(1, req)))}

\* what _readRegisters computes from a response frame: decodeV5Frame, then
\* parseRegistersAuto and looksLikeModbusTcp on the ADU
ReplyOf(frame, fc) ==
    LET d == decodeV5Frame(frame)
    IN  IF ~d.ok THEN [decoded |-> FALSE, err |-> d.err]
        ELSE [decoded |-> TRUE, tcp |-> looksLikeModbusTcp(d.adu),
              parse |-> parseRegistersAuto(d.adu, fc)]

Replies == [i \in 1..Len(Requests) |-> {ReplyOf(f, Requests[i].fc) : f \in ResponseFrames(Requests[i])}]

\* ------------------------------------------------------------------------
\* The state of one device
\* ------------------------------------------------------------------------
VARIABLES
    now,                \* Date.now(), in ms since local midnight
    geo,                \* homey.geolocation: unknown, or known with the day's sunrise / sunset
    lastPowerW,         \* this._lastPowerW (hundredths of a watt)
    backoffUntil,       \* this._backoffUntil
    polling,            \* this._polling
    client,             \* this._client: the index of the current SolarmanV5Client
    pollTimer,          \* this._pollTimer is set
    initialTicks,       \* one-shot initial ticks (setTimeout 1500) still pending
    transport,          \* client -> its _transport
    socket,             \* client -> its _socket
    caps,               \* capability -> the value the host holds
    available,          \* the availability the host holds
    unavailableMessage, \* the message of the latest setUnavailable
    polls,              \* the _poll calls: slot -> the position and locals of the call
    started,            \* the number of poll cycles started so far
    bench               \* a function or a client exercised on its own: the call and its result

vars == << now, geo, lastPowerW, backoffUntil, polling, client, pollTimer, initialTicks,
           transport, socket, caps, available, unavailableMessage, polls, started, bench >>

\* the scheduler state of the device, and what it reports to the host
deviceVars == << lastPowerW, backoffUntil, polling, client, transport, socket, caps,
                 available, unavailableMessage, polls, started >>

Clients == 0..MaxSettings
\* with s settings changes at most s + 1 calls of _poll are in flight
Slots == 1..(MaxSettings + 1)

\* the clock: it starts at 19:00 local time and moves in steps of 30 minutes
StartTime == 19 * 60 * 60 * 1000
TimeStep == 30 * 60 * 1000
EndTime == StartTime + MaxSteps * TimeStep

\* ------------------------------------------------------------------------
\* _getSunriseSunset / _isNight (decimal hours are kept in minutes)
\* ------------------------------------------------------------------------
\* the result of the NOAA computation for the configured coordinates is an
\* input; without coordinates the fixed window 06:00 - 19:00
GeoCases == {[known |-> FALSE, sunrise |-> 0, sunset |-> 0],
             [known |-> TRUE, sunrise |-> 5 * 60 + 40, sunset |-> 18 * 60 + 20]}

getSunriseSunset(g) ==
    IF ~g.known THEN [sunrise |-> 6 * 60, sunset |-> 19 * 60]
    ELSE [sunrise |-> g.sunrise, sunset |-> g.sunset]

\* h = local.getHours() + local.getMinutes() / 60
LocalMinutes(t) == (t \div 60000) % 1440

isNight(g, t) ==
    LET sun == getSunriseSunset(g)
        h == LocalMinutes(t)
    IN  h < sun.sunrise - 30 \/ h >= sun.sunset + 30

\* ------------------------------------------------------------------------
\* A _poll call
\* ------------------------------------------------------------------------
\* pc: "idle"        no call in this slot
\*     "connecting"  in readAll, awaiting connect() of the exchange of request idx
\*     "awaiting"    in readAll, request idx written, awaiting its response
\*     "applying"    readAll returned, awaiting setCapabilityValue of definition j
\*     "zeroing"     night failure, awaiting the Promise.all of _applyZeros
\* issues counts the requests written for the read of request idx.
IdlePoll == [pc |-> "idle", client |-> 0, idx |-> 0, issues |-> 0, map |-> << >>,
             values |-> << >>, j |-> 0, closed |-> FALSE]

InFlight == {p \in Slots : polls[p].pc # "idle"}

\* a guard that forgets the backoff window
PollGuardBusyOnly(t, until, busy) == ~busy

\* if (Date.now() < this._backoffUntil) return; if (this._polling) return;
PollGuard(t, until, busy) == ~(t < until) /\ ~busy

NullSocket == [st |-> "null", by |-> 0]

\* the slots whose pending exchange listens on the socket client c holds in sk
Users(ps, sk, c) ==
    {q \in Slots : ps[q].pc = "awaiting" /\ ps[q].client = c
                      /\ sk[c].st = "open" /\ sk[c].by = q}

\* this._socket.destroy() of client c: an exchange listening on it gets 'close'
Destroy(ps, sk, c) ==
    [q \in Slots |-> IF q \in Users(ps, sk, c) THEN [ps[q] EXCEPT !.closed = TRUE] ELSE ps[q]]

\* a 'close' of a destroyed socket is delivered before any other event
Urgent == \E q \in Slots : polls[q].closed

\* connect(), up to its await: the socket the client holds is destroyed and
\* dropped, a new one starts connecting for request idx of the call in slot p
BeginExchange(ps, sk, p, c, idx, issues) ==
    [polls |-> [Destroy(ps, sk, c) EXCEPT ![p].pc = "connecting", ![p].client = c,
                   ![p].idx = idx, ![p].issues = issues, ![p].closed = FALSE],
     socket |-> [sk EXCEPT ![c] = NullSocket]]

\* a write of the decoded value as it is
NoCoercion(capId, value) == value

\* coerced = capId === 'alarm_generic' ? (value === 'Fault' || value === 'Alarm') : value
Coerce(capId, value) ==
    IF capId = "alarm_generic"
       THEN Bool(\/ value.t = "label" /\ value.s \in {"Fault", "Alarm"}
                 \/ value.t = "ascii" /\ value.chars \in {<< 70, 97, 117, 108, 116 >>,
                                                          << 65, 108, 97, 114, 109 >>})
       ELSE value

\* a loop that does not test the value for null
WritableAbsent(values, j) ==
    /\ Definitions[j].homeyCapability # ""
    /\ Definitions[j].homeyCapability \in DeviceCaps

\* the tests of the capability loop: a binding, a value, a capability of the device
Writable(values, j) ==
    /\ Definitions[j].homeyCapability # ""
    /\ values[j].t # "null"
    /\ Definitions[j].homeyCapability \in DeviceCaps

\* the next definition from index `from` on that the loop writes, or 0
NextWritable(values, from) ==
    LET S == {j \in from..Len(Definitions) : Writable(values, j)}
    IN  IF S = {} THEN 0 ELSE CHOOSE j \in S : \A k \in S : j <= k

\* this._lastPowerW = typeof value === 'number' ? value : 0
PowerOf(value) == IF value.t = "number" THEN value.n ELSE 0

\* fetchRegisters: map.set(req.start + i, values[i]) for every value returned
Merge(map, start, values) ==
    LET new == {start + i - 1 : i \in 1..Len(values)}
    IN  [a \in DOMAIN map \cup new |-> IF a \in new THEN values[a - start + 1] ELSE map[a]]

\* readAll: result[def.name] = decodeRegister(def, registerMap)
Snapshot(map) == [i \in 1..Len(Definitions) |-> decodeRegister(Definitions[i], map)]

\* a zeroing that does not spare the energy counters
ZeroEverything(cs) == [c \in DOMAIN cs |-> Num(0)]

\* _applyZeros: caps.filter(c => this.hasCapability(c)) are set to 0
ApplyZeros(cs) == [c \in DOMAIN cs |-> IF c \in ZeroCaps THEN Num(0) ELSE cs[c]]

\* a classification that never, or always, takes the inverter for active
NeverActive(power) == FALSE

AlwaysActive(power) == TRUE

\* this._lastPowerW > POWER_THRESHOLD_W
WasActive(power) == power > POWER_THRESHOLD_W * 100

\* homey.__('device.unavailable', { error: err.message })
UnavailableText(err) == [key |-> "device.unavailable", error |-> err]

NoMessage == [key |-> "", error |-> ""]

\* ------------------------------------------------------------------------
\* Init: the state after the first onInit
\* ------------------------------------------------------------------------
\* nothing is exercised on its own
NoBench == [t |-> "none"]

DeviceInit ==
    /\ now = StartTime
    /\ geo \in GeoCases
    /\ lastPowerW = 0
    /\ backoffUntil = 0
    /\ polling = FALSE
    /\ client = 0
    /\ pollTimer = TRUE
    /\ initialTicks = 1
    /\ transport = [c \in Clients |-> "rtu"]
    /\ socket = [c \in Clients |-> NullSocket]
    /\ caps = [c \in DeviceCaps |-> Null]
    /\ available = TRUE
    /\ unavailableMessage = NoMessage
    /\ polls = [p \in Slots |-> IdlePoll]
    /\ started = 0

Init == DeviceInit /\ bench = NoBench

\* ------------------------------------------------------------------------
\* _poll: the call, up to the first await
\* ------------------------------------------------------------------------
\* the body of _poll(): the two guards, then this._polling = true and readAll
\* up to connect() of the first request
PollCall ==
    IF PollGuard(now, backoffUntil, polling) /\ ~pollTimer
       THEN \* after onUninit this._client is null: readAll throws a TypeError at
            \* its first use of the client, the catch throws another at
            \* this._client.disconnect(), and finally clears the flag again
            /\ started < MaxPolls
            /\ started' = started + 1
            /\ UNCHANGED << lastPowerW, backoffUntil, polling, client, transport, socket, caps,
                            available, unavailableMessage, polls >>
    ELSE IF PollGuard(now, backoffUntil, polling)
       THEN \E p \in Slots :
              /\ polls[p].pc = "idle"
              /\ \A q \in Slots : q < p => polls[q].pc # "idle"
              /\ LET x == BeginExchange(polls, socket, p, client, 1, 1)
                 IN  /\ polls' = x.polls
                     /\ socket' = x.socket
              /\ polling' = TRUE
              /\ started < MaxPolls
              /\ started' = started + 1
              /\ UNCHANGED << lastPowerW, backoffUntil, client, transport, caps, available,
                              unavailableMessage >>
       ELSE UNCHANGED deviceVars

\* the interval timer of onInit fires: 60 s after onInit, when the one-shot
\* timers (1.5 s) have fired
IntervalTick ==
    /\ ~Urgent
    /\ pollTimer
    /\ initialTicks = 0
    /\ PollCall
    /\ UNCHANGED << now, geo, bench, pollTimer, initialTicks >>

\* a one-shot timer of onInit (1500 ms) fires
InitialTick ==
    /\ ~Urgent
    /\ initialTicks > 0
    /\ initialTicks' = initialTicks - 1
    /\ PollCall
    /\ UNCHANGED << now, geo, bench, pollTimer >>

\* ------------------------------------------------------------------------
\* _poll: catch and finally
\* ------------------------------------------------------------------------
\* a call that goes on to the next request where it should end
GoesOn(ps, p) == [ps EXCEPT ![p].pc = "connecting", ![p].idx = 2]

\* the call in slot p ends: finally { this._polling = false }
\* a call that never returns
StillInFlight(ps, p) == ps

Finished(ps, p) == [ps EXCEPT ![p] = IdlePoll]

\* catch (err): readAll of the call in slot p threw err, with ps and sk the
\* calls and sockets as the throwing step left them
Fail(ps, sk, p, err) ==
    LET ps1 == Destroy(ps, sk, client)
        sk1 == [sk EXCEPT ![client] = NullSocket]
    IN  IF ~pollTimer
           THEN \* after onUninit this._client.disconnect() throws a TypeError:
                \* the catch ends there, and finally clears the flag
                /\ socket' = sk
                /\ polls' = Finished(ps, p)
                /\ polling' = FALSE
                /\ UNCHANGED << started, now, geo, bench, lastPowerW, backoffUntil, client,
                                pollTimer, initialTicks, transport, caps, available,
                                unavailableMessage >>
        ELSE
        /\ socket' = sk1
        /\ IF isNight(geo, now)
              THEN /\ caps' = ApplyZeros(caps)
                   /\ polls' = [ps1 EXCEPT ![p] = [IdlePoll EXCEPT !.pc = "zeroing",
                                                                    !.idx = ps[p].idx]]
                   /\ UNCHANGED << available, unavailableMessage, polling >>
              ELSE IF WasActive(lastPowerW)
              THEN /\ available' = FALSE
                   /\ unavailableMessage' = UnavailableText(err)
                   /\ polls' = Finished(ps1, p)
                   /\ polling' = FALSE
                   /\ UNCHANGED caps
              ELSE /\ polls' = Finished(ps1, p)
                   /\ polling' = FALSE
                   /\ UNCHANGED << caps, available, unavailableMessage >>
        /\ UNCHANGED << started, now, geo, bench, lastPowerW, backoffUntil, client, pollTimer, initialTicks,
                        transport >>

\* a backoff of twice the night window
BackoffDoubled(t) == t + 2 * NIGHT_BACKOFF_MS

\* this._backoffUntil = Date.now() + NIGHT_BACKOFF_MS
BackoffFrom(t) == t + NIGHT_BACKOFF_MS

\* the Promise.all of _applyZeros resolves: the rest of the night branch
ZerosDone(p) ==
    /\ ~Urgent
    /\ polls[p].pc = "zeroing"
    /\ lastPowerW' = 0
    /\ available' = TRUE
    /\ unavailableMessage' = NoMessage
    /\ backoffUntil' = BackoffFrom(now)
    /\ polling' = FALSE
    /\ polls' = Finished(polls, p)
    /\ UNCHANGED << started, now, geo, bench, client, pollTimer, initialTicks, transport, socket, caps >>

\* ------------------------------------------------------------------------
\* _poll: the success path
\* ------------------------------------------------------------------------
\* the loop writes definition j (setCapabilityValue) and awaits the host, or,
\* with no definition left to write, the call ends
WriteOrFinish(ps, p, values, j) ==
    IF j = 0
       THEN /\ polls' = Finished(ps, p)
            /\ polling' = FALSE
            /\ UNCHANGED caps
       ELSE LET capId == Definitions[j].homeyCapability
            IN  /\ caps' = [caps EXCEPT ![capId] = Coerce(capId, values[j])]
                /\ polls' = [ps EXCEPT ![p] = [IdlePoll EXCEPT !.pc = "applying",
                                                               !.values = values, !.j = j]]
                /\ UNCHANGED polling

\* readAll returned: setAvailable(), then the loop up to its first await
Succeed(ps, sk, p, map) ==
    LET values == Snapshot(map)
    IN  /\ socket' = sk
        /\ available' = TRUE
        /\ unavailableMessage' = NoMessage
        /\ WriteOrFinish(ps, p, values, NextWritable(values, 1))
        /\ UNCHANGED << started, now, geo, bench, lastPowerW, backoffUntil, client, pollTimer, initialTicks >>

\* setCapabilityValue of definition j returned: _lastPowerW after measure_power,
\* then the loop up to its next await
Resume(p) ==
    /\ ~Urgent
    /\ polls[p].pc = "applying"
    /\ LET j == polls[p].j
           values == polls[p].values
       IN  /\ lastPowerW' = IF Definitions[j].homeyCapability = "measure_power"
                               THEN PowerOf(values[j])
                               ELSE lastPowerW
           /\ WriteOrFinish(polls, p, values, NextWritable(values, j + 1))
    /\ UNCHANGED << started, now, geo, bench, backoffUntil, client, pollTimer, initialTicks, transport, socket,
                    available, unavailableMessage >>

\* ------------------------------------------------------------------------
\* SolarmanV5Client: one exchange (_sendReceive) of the read of a request
\* ------------------------------------------------------------------------
\* sock 'connect': this._socket = sock, the listeners are attached and the
\* request is written
ConnectOk(p) ==
    /\ ~Urgent
    /\ polls[p].pc = "connecting"
    /\ socket' = [socket EXCEPT ![polls[p].client] = [st |-> "open", by |-> p]]
    /\ polls' = [polls EXCEPT ![p].pc = "awaiting"]
    /\ UNCHANGED << started, now, geo, bench, lastPowerW, backoffUntil, polling, client, pollTimer,
                    initialTicks, transport, caps, available, unavailableMessage >>

\* sock 'error' while connecting, or the connection timer: connect() rejects
ConnectErrors == {"ECONNREFUSED", "Connection timeout"}

ConnectFail(p, err) ==
    /\ ~Urgent
    /\ polls[p].pc = "connecting"
    /\ err \in ConnectErrors
    /\ Fail(polls, socket, p, err)

\* the response timer fires: cleanup() (the exchange stops listening), then
\* this.disconnect() of its client, then reject
ResponseTimeout(p) ==
    /\ ~Urgent
    /\ polls[p].pc = "awaiting"
    /\ LET c == polls[p].client
           ps == [polls EXCEPT ![p].pc = "connecting"]
       IN  Fail(Destroy(ps, socket, c), [socket EXCEPT ![c] = NullSocket], p,
                "Response timeout")

\* the socket of the exchange emits 'error'
SocketError(p) ==
    /\ ~Urgent
    /\ polls[p].pc = "awaiting"
    /\ Fail(polls, socket, p, "ECONNRESET")

\* the socket of the exchange emits 'close': the peer closed it, or it was
\* destroyed under the exchange
SocketClose(p) ==
    /\ Urgent => polls[p].closed
    /\ polls[p].pc = "awaiting"
    /\ Fail([polls EXCEPT ![p].closed = FALSE], socket, p, "Socket closed before response")

\* the replies the inverter can give while the call in slot p awaits one
Awaited(p) == IF polls[p].pc = "awaiting" THEN Replies[polls[p].idx] ELSE {}

\* a complete frame arrived that decodeV5Frame rejects
ReceiveUndecodable(p, r) ==
    /\ ~Urgent
    /\ r \in Awaited(p)
    /\ ~r.decoded
    /\ Fail(polls, socket, p, r.err)

\* a client that stays on RTU
StayOnRtu(tr, c) == tr

\* this._transport = 'tcp'
SwitchToTcp(tr, c) == [tr EXCEPT ![c] = "tcp"]

\* a test that takes any disagreement of mode and shape for a reason to retry
AnyMismatch(mode, r) == (mode = "rtu") = r.tcp

\* this._transport === 'rtu' && looksLikeModbusTcp(adu)
TcpSeenOnRtu(mode, r) == mode = "rtu" /\ r.tcp

\* a complete frame arrived and parseRegistersAuto returned the values:
\* the client moves to TCP on a TCP-shaped frame, fetchRegisters stores the
\* values and goes on to the next request, or readAll returns
ReceiveValues(p, r) ==
    /\ ~Urgent
    /\ r \in Awaited(p)
    /\ r.decoded
    /\ r.parse.ok
    /\ LET c == polls[p].client
           idx == polls[p].idx
           map == Merge(polls[p].map, Requests[idx].start, r.parse.values)
           ps == [polls EXCEPT ![p].map = map]
       IN  /\ transport' = IF TcpSeenOnRtu(transport[c], r) THEN SwitchToTcp(transport, c)
                                                             ELSE transport
           /\ IF idx < Len(Requests)
                 THEN LET x == BeginExchange(ps, socket, p, c, idx + 1, 1)
                      IN  /\ polls' = x.polls
                          /\ socket' = x.socket
                          /\ UNCHANGED << started, now, geo, bench, lastPowerW, backoffUntil, polling,
                                          client, pollTimer, initialTicks, caps, available,
                                          unavailableMessage >>
                 ELSE Succeed(ps, socket, p, map)

\* parseRegistersAuto threw on a TCP-shaped frame while the client was on RTU:
\* the client moves to TCP and _readRegisters calls itself
ReceiveRetry(p, r) ==
    /\ ~Urgent
    /\ r \in Awaited(p)
    /\ r.decoded
    /\ ~r.parse.ok
    /\ LET c == polls[p].client
           x == BeginExchange(polls, socket, p, c, polls[p].idx, polls[p].issues + 1)
       IN  /\ TcpSeenOnRtu(transport[c], r)
           /\ transport' = SwitchToTcp(transport, c)
           /\ polls' = x.polls
           /\ socket' = x.socket
    /\ UNCHANGED << started, now, geo, bench, lastPowerW, backoffUntil, polling, client, pollTimer,
                    initialTicks, caps, available, unavailableMessage >>

\* parseRegistersAuto threw and the catch of _readRegisters rethrows
ReceiveError(p, r) ==
    /\ ~Urgent
    /\ r \in Awaited(p)
    /\ r.decoded
    /\ ~r.parse.ok
    /\ ~TcpSeenOnRtu(transport[polls[p].client], r)
    /\ Fail(polls, socket, p, r.parse.err)

AllReplies == UNION {Replies[i] : i \in 1..Len(Requests)}

\* the messages of the errors readAll can throw
Errors ==
    ConnectErrors \cup {"Response timeout", "ECONNRESET", "Socket closed before response"}
        \cup {r.err : r \in {x \in AllReplies : ~x.decoded}}
        \cup {r.parse.err : r \in {x \in AllReplies : x.decoded /\ ~x.parse.ok}}

\* readAll of the call in slot p throws an error with message err
Throws(p, err) ==
    \/ ConnectFail(p, err)
    \/ err = "Response timeout" /\ ResponseTimeout(p)
    \/ err = "ECONNRESET" /\ SocketError(p)
    \/ err = "Socket closed before response" /\ SocketClose(p)
    \/ \E r \in Awaited(p) : ~r.decoded /\ err = r.err /\ ReceiveUndecodable(p, r)
    \/ \E r \in Awaited(p) : r.decoded /\ ~r.parse.ok /\ err = r.parse.err /\ ReceiveError(p, r)

\* readAll of the call in slot p throws
Fails(p) ==
    \/ \E err \in ConnectErrors : ConnectFail(p, err)
    \/ ResponseTimeout(p)
    \/ SocketError(p)
    \/ SocketClose(p)
    \/ \E r \in Awaited(p) : ReceiveUndecodable(p, r)
    \/ \E r \in Awaited(p) : ReceiveError(p, r)

\* ------------------------------------------------------------------------
\* onSettings: onUninit, then onInit
\* ------------------------------------------------------------------------
OnSettings ==
    /\ ~Urgent
    /\ client < MaxSettings
    /\ polls' = Destroy(polls, socket, client)
    /\ socket' = [socket EXCEPT ![client] = NullSocket]
    /\ lastPowerW' = 0
    /\ backoffUntil' = 0
    /\ polling' = FALSE
    /\ client' = client + 1
    /\ initialTicks' = initialTicks + 1
    /\ pollTimer' = TRUE
    /\ UNCHANGED << started, now, geo, bench, transport, caps, available, unavailableMessage >>

\* onUninit on its own (the device is removed): the interval timer is
\* cleared, the client disconnected and dropped; the one-shot timers of
\* onInit stay scheduled
OnUninit ==
    /\ ~Urgent
    /\ pollTimer
    /\ pollTimer' = FALSE
    /\ polls' = Destroy(polls, socket, client)
    /\ socket' = [socket EXCEPT ![client] = NullSocket]
    /\ UNCHANGED << started, now, geo, bench, lastPowerW, backoffUntil, polling, client, initialTicks,
                    transport, caps, available, unavailableMessage >>

\* ------------------------------------------------------------------------
\* The clock
\* ------------------------------------------------------------------------
\* a cycle lasts seconds (every await of an exchange ends within timeoutMs),
\* a step of the clock is half an hour: the clock steps between cycles, and after the one-shot timers
Advance ==
    /\ InFlight = {}
    /\ initialTicks = 0
    /\ now < EndTime
    /\ now' = now + TimeStep
    /\ UNCHANGED << geo, bench, deviceVars, pollTimer, initialTicks >>

\* ------------------------------------------------------------------------
\* Specifications
\* ------------------------------------------------------------------------
Step(p) ==
    \/ ConnectOk(p)
    \/ \E err \in ConnectErrors : ConnectFail(p, err)
    \/ ResponseTimeout(p)
    \/ SocketError(p)
    \/ SocketClose(p)
    \/ \E r \in Awaited(p) : ReceiveUndecodable(p, r)
    \/ \E r \in Awaited(p) : ReceiveError(p, r)
    \/ \E r \in Awaited(p) : ReceiveValues(p, r)
    \/ \E r \in Awaited(p) : ReceiveRetry(p, r)
    \/ ZerosDone(p)
    \/ Resume(p)

\* a device whose settings are never changed
NextRun ==
    \/ IntervalTick
    \/ InitialTick
    \/ Advance
    \/ \E p \in Slots : Step(p)

Next ==
    \/ NextRun
    \/ OnSettings

Spec == Init /\ [][Next]_vars

\* a device that is removed at some point
NextTeardown ==
    \/ NextRun
    \/ OnUninit

SpecTeardown == Init /\ [][NextTeardown]_vars

SpecRun == Init /\ [][NextRun]_vars

\* Timers fire, sockets report their events and the calls of the host
\* return: a call of _poll that can take a step eventually takes one. Which
\* step (the answer of the device, an error, a close, a timeout) is open.
Fairness == \A p \in Slots : WF_vars(Step(p))

SpecLive == Spec /\ Fairness

\* ------------------------------------------------------------------------
\* The codec on its own: encodeV5Frame and decodeV5Frame applied to frames
\* ------------------------------------------------------------------------
\* the variables of the device
device == << now, geo, pollTimer, initialTicks, deviceVars >>

\* the read requests a client builds in either mode
RequestAdus ==
    {buildModbusRtuFrame(DEFAULT_SLAVE_ID, fc, 59, 52) : fc \in {3, 4}}
      \cup {buildModbusRtuFrame(DEFAULT_SLAVE_ID, 3, 109, 2)}
      \cup {buildModbusTcpFrame(txId, DEFAULT_SLAVE_ID, fc, 59, 52) : txId \in {0, 65535}, fc \in {3, 4}}
      \cup {buildModbusTcpFrame(258, DEFAULT_SLAVE_ID, 3, 109, 0)}

\* logger serials (low word, high word) and sequence numbers
Serials == {<< 0, 0 >>, << 22136, 4660 >>, << 65535, 65535 >>}
Sequences == {0, 1, 255, 256, 65535}

\* the ADUs a logger answers with: the last register of a read can be 0
ResponseAdus ==
    {RtuResponse(3, << 12345, 1 >>), TcpResponse(3, << 12345, 1 >>), TcpResponse(3, << 30, 0 >>),
     RtuException(3, 2), TcpException(4, 2)}

\* frame with the byte at offset off replaced
WithByte(frame, off, v) == [frame EXCEPT ![off + 1] = v]

\* frame with its payload-length field replaced
WithLength(frame, n) == WithByte(WithByte(frame, 1, n % 256), 2, (n \div 256) % 256)

\* what can arrive in place of the response frame f: 0 is f itself
Damages == 0..8

Damaged(f, k) ==
    CASE k = 1 -> WithByte(f, 0, 0)
      [] k = 2 -> WithByte(f, Len(f) - 1, 0)
      [] k = 3 -> WithByte(f, 4, 69)
      [] k = 4 -> WithLength(f, U16LE(f, 1) + 1)
      [] k = 5 -> WithLength(f, U16LE(f, 1) - 1)
      [] k = 6 -> WithLength(SubSeq(f, 1, 16) \o << 0, V5_END >>, 5)
      [] k = 7 -> << V5_START, V5_END >>
      [] k = 8 -> << >>
      [] OTHER -> f

NoResult == [ok |-> FALSE, err |-> ""]

\* the calls examined: an ADU to wrap and unwrap again, or a frame received
CodecCalls ==
    {[t |-> "codec", kind |-> "request", pc |-> "adu", adu |-> a, serial |-> s, sequence |-> q,
      frame |-> << >>, result |-> NoResult] : a \in RequestAdus, s \in Serials, q \in Sequences}
      \cup {[t |-> "codec", kind |-> (IF k = 0 THEN "response" ELSE "damaged"), pc |-> "frame",
             adu |-> a, serial |-> << 0, 0 >>, sequence |-> 0,
             frame |-> Damaged(V5Frame(V5_CTRL_RESPONSE, a), k), result |-> NoResult] :
               a \in ResponseAdus, k \in Damages}

InitCodec == DeviceInit /\ bench \in CodecCalls

\* encodeV5Frame(modbusFrame, loggerSerial, sequence)
EncodeCall ==
    /\ bench.t = "codec"
    /\ bench.pc = "adu"
    /\ bench' = [bench EXCEPT !.pc = "frame",
                              !.frame = encodeV5Frame(bench.adu, bench.serial, bench.sequence)]
    /\ UNCHANGED device

\* decodeV5Frame(v5Frame)
DecodeCall ==
    /\ bench.t = "codec"
    /\ bench.pc = "frame"
    /\ bench' = [bench EXCEPT !.pc = "decoded", !.result = decodeV5Frame(bench.frame)]
    /\ UNCHANGED device

NextCodec ==
    \/ EncodeCall
    \/ DecodeCall

SpecCodec == InitCodec /\ [][NextCodec]_vars

\* ------------------------------------------------------------------------
\* A client on its own: readHoldingRegisters, readInputRegisters and
\* writeSingleRegister called one after the other
\* ------------------------------------------------------------------------
\* a counter that is not masked to 16 bits
NextUnmasked(n) == n + 1

\* _nextSequence / _nextTxId: (n + 1) & 0xffff
nextSequence(n) == (n + 1) % 65536

nextTxId(n) == (n + 1) % 65536

\* the client after the constructor: the counters are
\* Math.floor(Math.random() * 0xffff), a value in 0 .. 65534
ClientInit ==
    {[t |-> "client", sequence |-> q, txId |-> x, transport |-> "rtu", pc |-> "ready", fc |-> 0,
      idx |-> 0, sent |-> << >>, sentTcp |-> << >>, exchanges |-> 0] :
         q \in {0, 65533, 65534}, x \in {0, 65534}}

InitClient == DeviceInit /\ bench \in ClientInit

\* _buildModbusRequest and encodeV5Frame with this._nextSequence(), then
\* _sendReceive up to the write of the frame: the client b after it
Exchange(b, fc, register, countOrValue) ==
    LET tx == IF b.transport = "tcp" THEN nextTxId(b.txId) ELSE b.txId
        adu == IF b.transport = "tcp"
                  THEN buildModbusTcpFrame(tx, DEFAULT_SLAVE_ID, fc, register, countOrValue)
                  ELSE buildModbusRtuFrame(DEFAULT_SLAVE_ID, fc, register, countOrValue)
        seq == nextSequence(b.sequence)
        frame == encodeV5Frame(adu, << 22136, 4660 >>, seq)
    IN  [b EXCEPT !.sequence = seq, !.txId = tx, !.pc = "awaiting", !.fc = fc, !.sent = frame,
                  !.sentTcp = IF b.transport = "tcp" THEN frame ELSE b.sentTcp,
                  !.exchanges = b.exchanges + 1]

\* readHoldingRegisters / readInputRegisters of request i of the catalog
ReadCall(i) ==
    /\ bench.t = "client"
    /\ bench.pc = "ready"
    /\ bench.exchanges < MaxExchanges
    /\ bench' = [Exchange(bench, Requests[i].fc, Requests[i].start, Requests[i].count)
                    EXCEPT !.idx = i]
    /\ UNCHANGED device

\* writeSingleRegister(register, value)
WriteCall ==
    /\ bench.t = "client"
    /\ bench.pc = "ready"
    /\ bench.exchanges < MaxExchanges
    /\ bench' = Exchange(bench, MODBUS_FC_WRITE_SINGLE, 40, 1)
    /\ UNCHANGED device

\* the response to a read arrives: the values are returned or the error is
\* thrown, or, on a parse error of a TCP-shaped ADU in RTU mode, the client
\* switches and _readRegisters calls itself
ReadAnswer(r) ==
    /\ bench.t = "client"
    /\ bench.pc = "awaiting"
    /\ bench.fc # MODBUS_FC_WRITE_SINGLE
    /\ r \in Replies[bench.idx]
    /\ bench' = IF ~r.decoded THEN [bench EXCEPT !.pc = "ready"]
                ELSE IF r.parse.ok
                   THEN [bench EXCEPT !.pc = "ready",
                                      !.transport = IF TcpSeenOnRtu(bench.transport, r)
                                                       THEN "tcp" ELSE bench.transport]
                ELSE IF TcpSeenOnRtu(bench.transport, r)
                   THEN Exchange([bench EXCEPT !.transport = "tcp"], bench.fc,
                                 Requests[bench.idx].start, Requests[bench.idx].count)
                ELSE [bench EXCEPT !.pc = "ready"]
    /\ UNCHANGED device

\* the exchange of a write ends (a response of either shape, or an error), or
\* the exchange of a read ends without a response (connect error, socket
\* error, timeout)
ExchangeEnds ==
    /\ bench.t = "client"
    /\ bench.pc = "awaiting"
    /\ bench' = [bench EXCEPT !.pc = "ready"]
    /\ UNCHANGED device

NextClient ==
    \/ \E i \in 1..Len(Requests) : ReadCall(i)
    \/ WriteCall
    \/ \E r \in AllReplies : ReadAnswer(r)
    \/ ExchangeEnds

SpecClient == InitClient /\ [][NextClient]_vars

\* ------------------------------------------------------------------------
\* The planner on its own: buildReadRequests(definitions, maxCount)
\* ------------------------------------------------------------------------
\* a catalog is drawn by giving each address no function code (0), 3 or 4
Assignments == [0..MaxAddr -> {0, 3, 4}]

\* a definition of function code fc (3 is the default, left out) on registers rs
DefOn(rs, fc) == IF fc = 4 THEN [registers |-> rs, fc |-> 4] ELSE [registers |-> rs]

\* one definition per address, the highest address first
SingleDefs(assign) ==
    LET used == SortAsc({a \in DOMAIN assign : assign[a] # 0})
        n == Len(used)
    IN  [i \in 1..n |-> DefOn(<< used[n + 1 - i] >>, assign[used[n + 1 - i]])]

\* one definition per function code, 4 first, and a definition that names
\* the lowest address of function code 3 once more
GroupedDefs(assign) ==
    LET a4 == SortAsc({a \in DOMAIN assign : assign[a] = 4})
        a3 == SortAsc({a \in DOMAIN assign : assign[a] = 3})
    IN  (IF a4 # << >> THEN << DefOn(a4, 4) >> ELSE << >>)
           \o (IF a3 # << >> THEN << DefOn(a3, 3), [registers |-> << a3[1] >>, fc |-> 3] >>
                             ELSE << >>)

\* the call examined: a catalog in one of the two layouts and a batch size
InitPlanner ==
    /\ DeviceInit
    /\ \E g \in Assignments, b \in 1..MaxBatch :
         \E ds \in {SingleDefs(g), GroupedDefs(g)} :
            bench = [t |-> "planner", pc |-> "input", assign |-> g, definitions |-> ds,
                     maxCount |-> b, requests |-> << >>]

PlanCall ==
    /\ bench.t = "planner"
    /\ bench.pc = "input"
    /\ bench' = [bench EXCEPT !.pc = "planned",
                              !.requests = buildReadRequests(bench.definitions, bench.maxCount)]
    /\ UNCHANGED device

SpecPlanner == InitPlanner /\ [][PlanCall]_vars

\* ------------------------------------------------------------------------
\* The decoder on its own: decodeRegister(def, registerMap)
\* ------------------------------------------------------------------------
\* rules 1 .. 7 and two rules the decoder does not know
Rules == 0..8

\* raw register words: 0, 2, 'AB', two blanks, 0x8000 and 0xffff at the
\* first address; 0, 2, two blanks, 'CD' and 0xffff at the others
Words == {0, 2, 16706, 8224, 32768, 65535}
HighWords == {0, 2, 8224, 17220, 65535}

DecoderDefs ==
    LET lists == {<< 1 >>, << 2 >>, << 1, 2 >>, << 1, 2, 3 >>}
        lookup == << [key |-> {0, 1}, value |-> "Standby"], [key |-> {2}, value |-> "Normal"] >>
    IN  {[rule |-> r, registers |-> rs] : r \in Rules, rs \in lists}
          \cup {[rule |-> r, registers |-> rs, scale |-> 10, offset |-> 1000] :
                   r \in Rules, rs \in lists}
          \cup {[rule |-> r, registers |-> rs, lookup |-> lookup] : r \in Rules, rs \in lists}

RegisterMaps ==
    {rm \in UNION {[D -> Words \cup HighWords] : D \in SUBSET {1, 2, 3}} :
        /\ 1 \in DOMAIN rm => rm[1] \in Words
        /\ \A a \in DOMAIN rm \ {1} : rm[a] \in HighWords}

\* The numeric rules are exercised where the number in hundredths is below
\* 2^31 in magnitude: the words above the low one are at most 2 in the
\* second place and 0 beyond it, in the value the rule computes.
Fits(def, registerMap) ==
    LET regs == def.registers
        limbs == Accumulate(regs, registerMap)
        Small(ls) == \A i \in 2..Len(ls) : ls[i] = 0 \/ (i = 2 /\ ls[i] <= 2)
    IN  IF \E i \in 1..Len(regs) : regs[i] \notin DOMAIN registerMap THEN TRUE
        ELSE IF def.rule \in {1, 3} THEN Small(ToUint32(limbs))
        ELSE IF def.rule \in {2, 4}
           THEN IF limbs[Len(limbs)] < 32768
                   THEN Small(limbs)
                   ELSE Small([i \in 1..Len(limbs) |-> 65535 - limbs[i]])
        ELSE TRUE

InitDecoder ==
    /\ DeviceInit
    /\ \E d \in DecoderDefs, rm \in RegisterMaps :
         /\ Fits(d, rm)
         /\ bench = [t |-> "decoder", pc |-> "input", def |-> d, map |-> rm, result |-> Null]

DecodeRegisterCall ==
    /\ bench.t = "decoder"
    /\ bench.pc = "input"
    /\ bench' = [bench EXCEPT !.pc = "decoded", !.result = decodeRegister(bench.def, bench.map)]
    /\ UNCHANGED device

SpecDecoder == InitDecoder /\ [][DecodeRegisterCall]_vars

\* ------------------------------------------------------------------------
\* crc16 and buildModbusRtuFrame on their own
\* ------------------------------------------------------------------------
\* byte sequences: every sequence of at most two bytes out of four, the six
\* bytes 01 03 00 00 00 0A and the nine characters "123456789"
CrcBuffers ==
    LET bs == {0, 1, 128, 255}
    IN  {<< >>} \cup {<< a >> : a \in bs} \cup {<< a, b >> : a \in bs, b \in bs}
          \cup {<< 1, 3, 0, 0, 0, 10 >>, << 49, 50, 51, 52, 53, 54, 55, 56, 57 >>}

\* slave id, function code, register, value or count
RtuArguments ==
    {<< s, fc, r, v >> : s \in {DEFAULT_SLAVE_ID, 247},
                         fc \in {MODBUS_FC_READ_HOLDING, MODBUS_FC_READ_INPUT, MODBUS_FC_WRITE_SINGLE},
                         r \in {0, 59, 65535}, v \in {0, 1, 52, 65535}}

InitCrc ==
    /\ DeviceInit
    /\ \/ \E b \in CrcBuffers :
            bench = [t |-> "crc", pc |-> "input", kind |-> "bytes", buf |-> b, args |-> << >>,
                     frame |-> << >>, crc |-> 0]
       \/ \E a \in RtuArguments :
            bench = [t |-> "crc", pc |-> "input", kind |-> "frame", buf |-> << >>, args |-> a,
                     frame |-> << >>, crc |-> 0]

Crc16Call ==
    /\ bench.t = "crc"
    /\ bench.pc = "input"
    /\ bench.kind = "bytes"
    /\ bench' = [bench EXCEPT !.pc = "done", !.crc = crc16(bench.buf)]
    /\ UNCHANGED device

\* the frame, and the CRC a receiver computes over all of it
BuildRtuCall ==
    /\ bench.t = "crc"
    /\ bench.pc = "input"
    /\ bench.kind = "frame"
    /\ LET frame == buildModbusRtuFrame(bench.args[1], bench.args[2], bench.args[3], bench.args[4])
       IN  bench' = [bench EXCEPT !.pc = "done", !.frame = frame, !.crc = crc16(frame)]
    /\ UNCHANGED device

NextCrc == Crc16Call \/ BuildRtuCall

SpecCrc == InitCrc /\ [][NextCrc]_vars

\* ------------------------------------------------------------------------
\* fetchRegisters on its own, over a logger that answers with any number of
\* words
\* ------------------------------------------------------------------------
\* the requests of a cycle
FetchPlans ==
    {<< [fc |-> 3, start |-> 1, count |-> 2] >>,
     << [fc |-> 3, start |-> 1, count |-> 2], [fc |-> 4, start |-> 4, count |-> 1] >>}

\* the data words of a response to req: none, fewer than asked for, as many,
\* or one more
FetchWords(req) == UNION {[1..n -> {0, 7}] : n \in 0..(req.count + 1)}

\* what the read of req returns or throws on such a response
FetchReply(req, words, shape) ==
    ReplyOf(V5Frame(V5_CTRL_RESPONSE, IF shape = "tcp" THEN TcpResponse(req.fc, words)
                                                       ELSE RtuResponse(req.fc, words)),
            req.fc)

InitFetch ==
    /\ DeviceInit
    /\ \E plan \in FetchPlans :
         bench = [t |-> "fetch", pc |-> "reading", requests |-> plan, idx |-> 1, map |-> << >>]

\* the read of request idx returns: map.set(req.start + i, values[i]), then
\* the next request, or the map is returned
ReadReturns(words, shape) ==
    /\ bench.t = "fetch"
    /\ bench.pc = "reading"
    /\ LET req == bench.requests[bench.idx]
           r == FetchReply(req, words, shape)
       IN  /\ words \in FetchWords(req)
           /\ r.decoded
           /\ r.parse.ok
           /\ bench' = [bench EXCEPT !.map = Merge(bench.map, req.start, r.parse.values),
                                     !.idx = bench.idx + 1,
                                     !.pc = IF bench.idx = Len(bench.requests) THEN "returned"
                                                                               ELSE "reading"]
    /\ UNCHANGED device

\* the read of request idx throws, and fetchRegisters with it
ReadThrows(words, shape) ==
    /\ bench.t = "fetch"
    /\ bench.pc = "reading"
    /\ LET req == bench.requests[bench.idx]
           r == FetchReply(req, words, shape)
       IN  /\ words \in FetchWords(req)
           /\ ~(r.decoded /\ r.parse.ok)
           /\ bench' = [bench EXCEPT !.pc = "thrown"]
    /\ UNCHANGED device

NextFetch ==
    \E shape \in {"rtu", "tcp"} :
       \E words \in UNION {UNION {FetchWords(plan[i]) : i \in 1..Len(plan)} : plan \in FetchPlans} :
       \/ ReadReturns(words, shape)
       \/ ReadThrows(words, shape)

SpecFetch == InitFetch /\ [][NextFetch]_vars

\* ------------------------------------------------------------------------
\* _sendReceive: onData over a response that arrives in chunks
\* ------------------------------------------------------------------------
\* an expected length that leaves out the checksum and the end byte
ExpectedWithoutTail(buf) == 11 + U16LE(buf, 1)

\* const payloadLen = buf.readUInt16LE(1); expectedLen = 11 + payloadLen + 2
ExpectedLen(buf) == 11 + U16LE(buf, 1) + 2

\* the bytes the socket delivers: a response frame, a frame followed by the
\* first bytes of another, a frame cut short, and a frame of 120 registers,
\* whose payload length takes both bytes of the field
ByteStreams ==
    LET frames == {V5Frame(V5_CTRL_RESPONSE, RtuException(MODBUS_FC_READ_HOLDING, 2)),
                   V5Frame(V5_CTRL_RESPONSE, TcpResponse(MODBUS_FC_READ_HOLDING, << 30, 0 >>)),
                   V5Frame(V5_CTRL_RESPONSE, << >>)}
    IN  frames \cup {f \o << V5_START, 1 >> : f \in frames}
          \cup {SubSeq(f, 1, Len(f) - 2) : f \in frames} \cup {<< V5_START, 14 >>}
          \cup {V5Frame(V5_CTRL_RESPONSE, TcpResponse(MODBUS_FC_READ_HOLDING, [i \in 1..120 |-> 7]))}

\* received: the length of Buffer.concat(chunks); before: its length before
\* the last chunk; expectedLen 0 stands for null
InitStream ==
    /\ DeviceInit
    /\ \E st \in ByteStreams :
         bench = [t |-> "stream", pc |-> "pending", stream |-> st, received |-> 0, before |-> 0,
                  expectedLen |-> 0, result |-> << >>]

\* the 'data' listener runs on a chunk of n bytes
DataChunk(n) ==
    /\ bench.t = "stream"
    /\ bench.pc = "pending"
    /\ n >= 1
    /\ bench.received + n <= Len(bench.stream)
    /\ LET buf == SubSeq(bench.stream, 1, bench.received + n)
           expectedLen == IF bench.expectedLen = 0 /\ Len(buf) >= 3 THEN ExpectedLen(buf)
                                                                    ELSE bench.expectedLen
           complete == expectedLen # 0 /\ Len(buf) >= expectedLen
       IN  bench' = [bench EXCEPT !.received = Len(buf),
                                  !.before = bench.received,
                                  !.expectedLen = expectedLen,
                                  !.pc = IF complete THEN "resolved" ELSE "pending",
                                  !.result = IF complete THEN Slice(buf, 0, expectedLen) ELSE << >>]
    /\ UNCHANGED device

SpecStream == InitStream /\ [][\E n \in 1..Len(bench.stream) : DataChunk(n)]_vars

\* ------------------------------------------------------------------------
\* readAll on its own, over an inverter whose holding and input registers
\* differ
\* ------------------------------------------------------------------------
\* definitions of one register at address 1 or 2, read with function code 3,
\* with function code 4, or with none given
BankDefs ==
    {[name |-> "", rule |-> 1, registers |-> << a >>, fc |-> f] : a \in {1, 2}, f \in {3, 4}}
      \cup {[name |-> "", rule |-> 1, registers |-> << a >>] : a \in {1, 2}}

\* the word the inverter holds at an address: holding registers (read with
\* function code 3) and input registers (function code 4)
BankWord(fc, addr) == IF fc = 4 THEN 200 + addr ELSE 100 + addr

InitReadAll ==
    /\ DeviceInit
    /\ \E d1 \in BankDefs, d2 \in BankDefs :
         bench = [t |-> "readAll", pc |-> "called",
                  definitions |-> << [d1 EXCEPT !.name = "first"], [d2 EXCEPT !.name = "second"] >>,
                  requests |-> << >>, idx |-> 0, map |-> << >>, result |-> << >>]

\* const requests = buildReadRequests(definitions)
PlanStep ==
    /\ bench.t = "readAll"
    /\ bench.pc = "called"
    /\ bench' = [bench EXCEPT !.pc = "fetching", !.idx = 1,
                              !.requests = buildReadRequests(bench.definitions, DEFAULT_MAX_COUNT)]
    /\ UNCHANGED device

\* fetchRegisters: the read of request idx (readInputRegisters for fc 4,
\* readHoldingRegisters otherwise) returns, the values go into the map
FetchStep ==
    /\ bench.t = "readAll"
    /\ bench.pc = "fetching"
    /\ bench.idx <= Len(bench.requests)
    /\ LET req == bench.requests[bench.idx]
           values == [i \in 1..req.count |->
                        BankWord(IF req.fc = 4 THEN 4 ELSE 3, req.start + i - 1)]
       IN  bench' = [bench EXCEPT !.map = Merge(bench.map, req.start, values),
                                  !.idx = bench.idx + 1]
    /\ UNCHANGED device

\* result[def.name] = decodeRegister(def, registerMap), kept in definition order
DecodeStep ==
    /\ bench.t = "readAll"
    /\ bench.pc = "fetching"
    /\ bench.idx > Len(bench.requests)
    /\ bench' = [bench EXCEPT !.pc = "returned",
                              !.result = [i \in 1..Len(bench.definitions) |->
                                            decodeRegister(bench.definitions[i], bench.map)]]
    /\ UNCHANGED device

NextReadAll == PlanStep \/ FetchStep \/ DecodeStep

SpecReadAll == InitReadAll /\ [][NextReadAll]_vars

\* ------------------------------------------------------------------------
\* Properties
\* ------------------------------------------------------------------------
\* the call in slot p starts the read of the same request once more
Reissued(p) ==
    /\ polls'[p].pc = "connecting"
    /\ polls'[p].idx = polls[p].idx
    /\ polls'[p].issues = polls[p].issues + 1

Night == isNight(geo, now)

\* C1: in every reachable state, under any interleaving of the initial tick,
\* the periodic ticks, the completions of poll cycles and settings changes, at
\* most one poll cycle is in flight.
AtMostOnePollInFlight == Cardinality(InFlight) <= 1

TickInBackoffIsNoOp ==
    [][(IntervalTick \/ InitialTick) /\ now < backoffUntil => UNCHANGED deviceVars]_vars

\* a backoff window is open, the device is idle and its timer runs
TickInBackoffSeen ==
    /\ now < backoffUntil
    /\ backoffUntil = now + NIGHT_BACKOFF_MS
    /\ pollTimer
    /\ ~polling
    /\ InFlight = {}

\* C4: a poll cycle that fails in the solar window while last-known power is
\* above 5 marks the device unavailable with a message that carries the text of
\* the error, changes no capability and sets no backoff.
ActiveDaytimeFailureEscalated ==
    [][\A p \in Slots : \A err \in Errors :
         ~Night /\ lastPowerW > POWER_THRESHOLD_W * 100 /\ Throws(p, err)
            => /\ ~available'
               /\ unavailableMessage'.key = "device.unavailable"
               /\ unavailableMessage'.error = err
               /\ caps' = caps
               /\ backoffUntil' = backoffUntil
               /\ lastPowerW' = lastPowerW]_vars

\* the device was producing, a cycle failed by day, the device is unavailable
ActiveDaytimeFailureSeen ==
    /\ ~Night
    /\ ~available
    /\ unavailableMessage.error \in Errors
    /\ lastPowerW > POWER_THRESHOLD_W * 100
    /\ caps["measure_power"] = Num(lastPowerW)
    /\ backoffUntil = 0

\* C5: a poll cycle that fails in the solar window while last-known power is
\* at or below 5 leaves the availability, every capability, last-known power
\* and the backoff timestamp as they were.
IdleDaytimeFailureSilent ==
    [][\A p \in Slots :
         ~Night /\ lastPowerW <= POWER_THRESHOLD_W * 100 /\ Fails(p)
            => UNCHANGED << available, unavailableMessage, caps, lastPowerW,
                            backoffUntil >>]_vars

\* by day the only cycle so far has ended, and it left no trace: it failed
\* while last-known power was 0
IdleDaytimeFailureSeen ==
    /\ ~Night
    /\ started = 1
    /\ InFlight = {}
    /\ ~polling
    /\ available
    /\ lastPowerW = 0
    /\ backoffUntil = 0
    /\ \A c \in DeviceCaps : caps[c] = Null

\* the call in slot p enters the write of a definition (setCapabilityValue)
WriteEntered(p) ==
    /\ polls'[p].pc = "applying"
    /\ \/ polls[p].pc = "awaiting"
       \/ polls[p].pc = "applying" /\ polls'[p].j # polls[p].j

\* the definition the loop of the call in slot p has passed
Passed(p) == IF polls[p].pc = "applying" THEN polls[p].j ELSE 0

\* the response that ends readAll of the call in slot p has arrived
ReadAllReturns(p, r) == polls[p].idx = Len(Requests) /\ ReceiveValues(p, r)

\* C6 as stated: a cycle whose readAll succeeds marks the device available,
\* writes each non-absent decoded value to its bound capability, and sets
\* last-known power to the decoded value bound to measure_power.
SuccessWritesEveryDecodedValue ==
    [][\A p \in Slots :
         /\ \A r \in Awaited(p) : ReadAllReturns(p, r) => available'
         /\ WriteEntered(p)
              => LET j == polls'[p].j
                     values == polls'[p].values
                 IN  /\ caps'[Definitions[j].homeyCapability] = values[j]
                     /\ \A k \in (Passed(p) + 1)..(j - 1) :
                          Definitions[k].homeyCapability = "" \/ values[k].t = "null"
         /\ Resume(p) /\ Definitions[polls[p].j].homeyCapability = "measure_power"
              => lastPowerW' = polls[p].values[polls[p].j].n]_vars

\* C6, amended: a cycle whose readAll succeeds marks the device available; it
\* writes, in the order of the definitions, each non-absent decoded value whose
\* bound capability the device has to that capability and to no other, writing
\* for alarm_generic the boolean "the value is Fault or Alarm" in place of the
\* decoded label; after the write to measure_power it sets last-known power to
\* the decoded value.
SuccessApplied ==
    [][\A p \in Slots :
         /\ \A r \in Awaited(p) :
              ReadAllReturns(p, r)
                 => /\ available'
                    /\ unavailableMessage' = NoMessage
                    /\ polls'[p].pc = "applying"
                         => polls'[p].values =
                              [i \in 1..Len(Definitions) |->
                                 decodeRegister(Definitions[i],
                                                Merge(polls[p].map, Requests[polls[p].idx].start,
                                                      r.parse.values))]
         /\ WriteEntered(p)
              => LET j == polls'[p].j
                     values == polls'[p].values
                     capId == Definitions[j].homeyCapability
                 IN  /\ capId \in DeviceCaps
                     /\ values[j].t # "null"
                     /\ caps'[capId] =
                          IF capId = "alarm_generic"
                             THEN Bool(values[j].t = "label" /\ values[j].s \in {"Fault", "Alarm"})
                             ELSE values[j]
                     /\ \A c \in DeviceCaps \ {capId} : caps'[c] = caps[c]
                     /\ \A k \in (Passed(p) + 1)..(j - 1) :
                          \/ Definitions[k].homeyCapability \notin DeviceCaps
                          \/ values[k].t = "null"
         /\ Resume(p) /\ polls'[p].pc = "idle"
              => \A k \in (polls[p].j + 1)..Len(Definitions) :
                   \/ Definitions[k].homeyCapability \notin DeviceCaps
                   \/ polls[p].values[k].t = "null"
         /\ Resume(p)
              => lastPowerW' = IF Definitions[polls[p].j].homeyCapability = "measure_power"
                                  THEN polls[p].values[polls[p].j].n
                                  ELSE lastPowerW]_vars

\* a cycle that read the state Fault has written true to alarm_generic
SuccessAppliedSeen ==
    \E p \in Slots :
        /\ polls[p].pc = "applying"
        /\ Definitions[polls[p].j].homeyCapability = "alarm_generic"
        /\ polls[p].values[polls[p].j] = Label("Fault")
        /\ caps["alarm_generic"] = Bool(TRUE)
        /\ available

FailedRequestAbortsCycle ==
    [][\A p \in Slots :
         /\ Fails(p)
              => /\ polls'[p].pc \in {"idle", "zeroing"}
                 /\ polls'[p].map = << >>
                 /\ polls'[p].values = << >>
                 /\ \A c \in DeviceCaps :
                      caps'[c] = caps[c] \/ (Night /\ c \in ZeroCaps /\ caps'[c] = Num(0))
         /\ ~Night /\ lastPowerW > POWER_THRESHOLD_W * 100
              => \A err \in Errors : Throws(p, err) => unavailableMessage'.error = err
         /\ ConnectOk(p) => caps' = caps
         /\ \A r \in Awaited(p) :
              ReceiveRetry(p, r) \/ (polls[p].idx < Len(Requests) /\ ReceiveValues(p, r))
                 => caps' = caps]_vars

\* the read of the second request failed at night, after the first request
\* had fetched its registers
FailedRequestAbortsCycleSeen ==
    \E p \in Slots :
        /\ polls[p].pc = "zeroing"
        /\ polls[p].idx = 2
        /\ polls[p].map = << >>

\* exchanges of client c that await a response
AwaitingOn(c) == {p \in Slots : polls[p].pc = "awaiting" /\ polls[p].client = c}

\* C10: within a cycle the requests are sent in the order of the planner,
\* request i + 1 only after the response to request i has been received and
\* parsed; and at no time does a client have more than one exchange awaiting
\* a response.
SequentialExchanges ==
    /\ [][\A p \in Slots :
            polls'[p].pc \in {"connecting", "awaiting"} /\ polls'[p].idx # polls[p].idx
               => \/ polls[p].pc = "idle" /\ polls'[p].idx = 1
                  \/ /\ polls[p].pc = "awaiting"
                     /\ polls'[p].idx = polls[p].idx + 1
                     /\ \E r \in Awaited(p) : r.decoded /\ r.parse.ok /\ ReceiveValues(p, r)]_vars
    /\ [](\A c \in Clients : Cardinality(AwaitingOn(c)) <= 1)

\* C11: the connection a client holds is one an exchange is using: it is
\* opened for the exchange and destroyed as soon as the exchange ends (by a
\* complete response, a socket error or a response timeout), so that a client
\* holds no open connection outside an exchange, in particular after a poll
\* cycle that completed successfully.
ConnectionOnlyDuringExchange ==
    \A c \in Clients : socket[c].st = "open" => Users(polls, socket, c) # {}

\* the call in slot p belongs to a cycle started before the latest settings
\* change (seen while the call is in readAll)
Stale(p) == polls[p].pc \in {"connecting", "awaiting"} /\ polls[p].client # client

\* C12: a settings change leaves the scheduler state fresh (last-known power
\* 0, backoff timestamp 0, in-flight flag false, a new client in RTU mode that
\* holds no connection), and no step of a poll cycle started before the
\* settings change alters the new state: the in-flight flag, the backoff
\* timestamp, the last-known power and the new client's connection stay as
\* they are.
SettingsChangeIsolatesOldCycle ==
    [][/\ OnSettings => /\ lastPowerW' = 0
                        /\ backoffUntil' = 0
                        /\ polling' = FALSE
                        /\ client' # client
                        /\ transport'[client'] = "rtu"
                        /\ socket'[client'] = NullSocket
       /\ \A p \in Slots :
            Stale(p) /\ Step(p)
               => /\ UNCHANGED << polling, backoffUntil, lastPowerW >>
                  /\ socket'[client] = socket[client]]_vars

\* the frame of the call examined was built by encodeV5Frame
Built == bench.t = "codec" /\ bench.kind = "request" /\ bench.pc \in {"frame", "decoded"}

\* decodeV5Frame has been applied to the frame of the call examined
Decoded == bench.t = "codec" /\ bench.pc = "decoded"

\* C13 as stated: for every request ADU (RTU-shaped, 8 bytes, or TCP-shaped,
\* 12 bytes), every logger serial and every sequence number, decodeV5Frame
\* applied to the frame encodeV5Frame built returns exactly the bytes of the
\* ADU.
EncodeDecodeRoundTrip ==
    Decoded /\ bench.kind = "request" => bench.result.ok /\ bench.result.adu = bench.adu

\* a with a trailing pair of zero bytes removed
WithoutTrailingZeros(a) ==
    IF Len(a) >= 2 /\ a[Len(a) - 1] = 0 /\ a[Len(a)] = 0 THEN SubSeq(a, 1, Len(a) - 2) ELSE a

\* C13, amended: decodeV5Frame rejects every frame encodeV5Frame built, with
\* the control-code error and without returning bytes; applied to a response
\* frame (control code 0x1510, 14-byte prefix) that wraps the ADU a, it
\* returns a without its last two bytes if both are zero, and a itself
\* otherwise.
RequestFrameRejected ==
    /\ Decoded /\ bench.kind = "request"
          => bench.result = Thrown("Unexpected V5 control code")
    /\ Decoded /\ bench.kind = "response"
          => bench.result.ok /\ bench.result.adu = WithoutTrailingZeros(bench.adu)

RequestFrameRejectedSeen ==
    /\ Decoded
    /\ bench.kind = "request"
    /\ Len(bench.adu) = 12
    /\ bench.sequence = 65535

\* C14: the frame encodeV5Frame builds for an ADU of length L has length
\* 28 + L, first byte 0xA5, last byte 0x15, the payload length 15 + L in
\* little-endian at offset 1, the control code bytes 0x10 0x45, the sequence
\* and the serial in little-endian at offsets 5 and 7, the prefix 0x02 and 14
\* zero bytes from offset 11, the ADU at offset 26, and at offset length - 2
\* the low 8 bits of the sum of the bytes at offsets 1 .. length - 3.
RequestFrameLayout ==
    Built =>
       LET f == bench.frame
           L == Len(bench.adu)
       IN  /\ Len(f) = 28 + L
           /\ Byte(f, 0) = 165
           /\ Byte(f, Len(f) - 1) = 21
           /\ Byte(f, 1) = (15 + L) % 256 /\ Byte(f, 2) = (15 + L) \div 256
           /\ Byte(f, 3) = 16 /\ Byte(f, 4) = 69
           /\ Byte(f, 5) = bench.sequence % 256 /\ Byte(f, 6) = bench.sequence \div 256
           /\ Byte(f, 7) = bench.serial[1] % 256 /\ Byte(f, 8) = bench.serial[1] \div 256
           /\ Byte(f, 9) = bench.serial[2] % 256 /\ Byte(f, 10) = bench.serial[2] \div 256
           /\ Byte(f, 11) = 2
           /\ \A off \in 12..25 : Byte(f, off) = 0
           /\ \A i \in 1..L : Byte(f, 25 + i) = bench.adu[i]
           /\ Byte(f, Len(f) - 2) = SumBytes(f, 1, Len(f) - 2) % 256

RequestFrameLayoutSeen ==
    /\ Built
    /\ bench.pc = "frame"
    /\ Len(bench.adu) = 8
    /\ bench.serial = << 22136, 4660 >>
    /\ bench.sequence = 256

\* C15: decodeV5Frame returns an ADU only for a frame that starts with 0xA5,
\* ends with 0x15, carries the response control code 0x1510 and whose
\* payload-length field agrees with the frame size (11 + payloadLen + 2 is
\* the frame length, payloadLen >= 14); every other frame is rejected with an
\* error and no bytes.
DecodeAcceptsOnlyWellFormed ==
    Decoded =>
       LET f == bench.frame
       IN  bench.result.ok
             <=> /\ Len(f) >= 5
                 /\ Byte(f, 0) = 165
                 /\ Byte(f, Len(f) - 1) = 21
                 /\ U16LE(f, 3) = 5392
                 /\ 11 + U16LE(f, 1) + 2 = Len(f)
                 /\ U16LE(f, 1) >= 14

\* the exception code of a response ADU whose function-code byte has the high
\* bit set: the byte after the function code; -1 for any other ADU
ExceptionCode(adu) ==
    IF looksLikeModbusTcp(adu)
       THEN IF Byte(adu, 7) >= 128 THEN Byte(adu, 8) ELSE 0 - 1
    ELSE IF Len(adu) >= 3 /\ Byte(adu, 1) >= 128 THEN Byte(adu, 2)
    ELSE 0 - 1

\* per request, the replies to the exception responses, each with its code
ExceptionReplies ==
    [i \in 1..Len(Requests) |->
       {[reply |-> ReplyOf(f, Requests[i].fc), code |-> ExceptionCode(decodeV5Frame(f).adu)] :
           f \in {g \in ResponseFrames(Requests[i]) :
                     decodeV5Frame(g).ok /\ ExceptionCode(decodeV5Frame(g).adu) >= 0}}]

\* the exception replies the call in slot p can receive
ExceptionsAwaited(p) == IF polls[p].pc = "awaiting" THEN ExceptionReplies[polls[p].idx] ELSE {}

\* C16 as stated: on a response ADU of either shape whose function code has
\* the high bit set the read fails with an error that carries the exception
\* code, returns no values and merges nothing into the register map.
ExceptionFailsRead ==
    [][\A p \in Slots : \A x \in ExceptionsAwaited(p) :
         LET r == x.reply
         IN  /\ ~r.parse.ok
             /\ "code" \in DOMAIN r.parse /\ r.parse.code = x.code
             /\ ReceiveError(p, r) \/ ReceiveRetry(p, r)
                  => /\ polls'[p].pc \in {"idle", "zeroing"}
                     /\ polls'[p].map = << >>]_vars

\* C16, amended: parseRegistersAuto answers a response ADU of either shape
\* whose function code has the high bit set with an error that carries the
\* exception code, and returns no values. The read fails with that error and
\* the cycle ends with nothing merged, unless the client is in RTU mode and the
\* ADU is TCP-shaped: then the client switches to TCP and re-issues the
\* request, the register map as it was.
ExceptionFailsOrSwitches ==
    [][\A p \in Slots : \A x \in ExceptionsAwaited(p) :
         LET r == x.reply
             c == polls[p].client
         IN  /\ ~r.parse.ok
             /\ "values" \notin DOMAIN r.parse
             /\ "code" \in DOMAIN r.parse /\ r.parse.code = x.code
             /\ ~ReceiveValues(p, r)
             /\ ReceiveError(p, r)
                  => /\ ~(transport[c] = "rtu" /\ r.tcp)
                     /\ polls'[p].pc \in {"idle", "zeroing"}
                     /\ polls'[p].map = << >>
                     /\ UNCHANGED transport
                     /\ WasActive(lastPowerW) /\ ~Night
                           => ~available' /\ unavailableMessage'.error = r.parse.err
             /\ ReceiveRetry(p, r)
                  => /\ transport[c] = "rtu" /\ r.tcp
                     /\ transport'[c] = "tcp"
                     /\ Reissued(p)
                     /\ polls'[p].map = polls[p].map]_vars

ExceptionFailsOrSwitchesSeen ==
    /\ ~available
    /\ unavailableMessage.error = "Modbus TCP exception code"
    /\ transport[client] = "tcp"

\* C17: for one client, the sequence number in the outer frame of each
\* exchange (read, re-issued read or write) is the sequence number of the
\* previous exchange plus 1 modulo 2^16, and the transaction id of each
\* TCP-mode request is that of the previous TCP-mode request plus 1 modulo
\* 2^16; both counters lie in 0 .. 65535 at all times, also where they wrap
\* from 65535 to 0.
CountersStepByOne ==
    /\ [](bench.t = "client" => bench.sequence \in 0..65535 /\ bench.txId \in 0..65535)
    /\ [][bench.t = "client" /\ bench'.exchanges # bench.exchanges
            => LET f == bench'.sent
                   tcp == Len(f) = 28 + 12
               IN  /\ bench'.exchanges = bench.exchanges + 1
                   /\ bench.sent # << >> => U16LE(f, 5) = (U16LE(bench.sent, 5) + 1) % 65536
                   /\ tcp <=> bench'.transport = "tcp"
                   /\ tcp /\ bench.sentTcp # << >>
                        => U16BE(f, 26) = (U16BE(bench.sentTcp, 26) + 1) % 65536
                   /\ ~tcp => bench'.txId = bench.txId]_vars

CountersStepByOneSeen ==
    /\ bench.t = "client"
    /\ bench.exchanges = 3
    /\ Len(bench.sent) = 28 + 12
    /\ U16LE(bench.sent, 5) = 0
    /\ U16BE(bench.sent, 26) = 0

\* buildReadRequests has returned the plan of the call examined
Planned == bench.t = "planner" /\ bench.pc = "planned"

\* the ranges of the plan for function code fc, in the order of the plan
RangesOf(fc) ==
    LET Is(r) == r.fc = fc
    IN  SelectSeq(bench.requests, Is)

\* the addresses the catalog names for function code fc
AddressesOf(fc) == {a \in DOMAIN bench.assign : bench.assign[a] = fc}

MinRanges(A, B) ==
    LET Covers(S) == \A a \in A : \E st \in S : st <= a /\ a <= st + B - 1
        sizes == {Cardinality(S) : S \in {T \in SUBSET (0..MaxAddr) : Covers(T)}}
    IN  CHOOSE k \in sizes : \A n \in sizes : k <= n

\* C19: per function code, the plan has as few ranges as any set of contiguous
\* ranges of at most B registers that covers all the addresses can have.
PlanIsMinimal ==
    Planned => \A fc \in {3, 4} : Len(RangesOf(fc)) = MinRanges(AddressesOf(fc), bench.maxCount)

PlanIsMinimalSeen ==
    /\ Planned
    /\ bench.requests = << [fc |-> 3, start |-> 0, count |-> 3], [fc |-> 3, start |-> 4, count |-> 2] >>
    /\ AddressesOf(3) = {0, 2, 4, 5}

\* C20: decodeRegister always returns: absent (null) when an address of the
\* definition is missing from the map or the rule is not one of 1 .. 7, and a
\* value that is not absent when all addresses are present and the rule is
\* one of 1 .. 7.
DecodeRegisterTotal ==
    bench.t = "decoder" /\ bench.pc = "decoded" =>
       LET d == bench.def
           missing == \E i \in 1..Len(d.registers) : d.registers[i] \notin DOMAIN bench.map
       IN  /\ bench.result.t \in {"null", "number", "label", "unknown", "ascii", "hex", "version"}
           /\ bench.result = Null <=> missing \/ d.rule \notin 1..7

DecodeRegisterTotalSeen ==
    /\ bench.t = "decoder"
    /\ bench.pc = "decoded"
    /\ bench.def.rule = 5
    /\ bench.def.registers = << 1, 2 >>
    /\ bench.result = Ascii(<< >>)

\* ------------------------------------------------------------------------
\* decodeRegister: the value before offset and scale
\* ------------------------------------------------------------------------
\* n shifted right by k words, and its i-th 16-bit word (the first is the
\* low one); for a negative n these are the words of its two's complement
RECURSIVE WordsDropped(_, _)
WordsDropped(n, k) == IF k = 0 THEN n ELSE WordsDropped(n \div 65536, k - 1)

WordOf(n, i) == WordsDropped(n, i - 1) % 65536

\* the raw value a numeric result was computed from: result = (raw - offset) * scale
RawOf(def, result) == (result.n \div ScaleOf(def)) + OffsetOf(def)

DecodedWith(rules) ==
    /\ bench.t = "decoder"
    /\ bench.pc = "decoded"
    /\ bench.def.rule \in rules
    /\ \A i \in 1..Len(bench.def.registers) : bench.def.registers[i] \in DOMAIN bench.map

\* C21: for rules 1 and 3 without a lookup table and one, two or three
\* registers, the raw value before offset and scale is the full unsigned
\* value of the registers, the first listed register being the low word:
\* its i-th 16-bit word is the i-th register for every i, and nothing lies
\* above them.
UnsignedRawIsFullValue ==
    DecodedWith({1, 3}) /\ "lookup" \notin DOMAIN bench.def =>
       LET regs == bench.def.registers
           raw == RawOf(bench.def, bench.result)
       IN  /\ bench.result.t = "number"
           /\ \A i \in 1..Len(regs) : WordOf(raw, i) = bench.map[regs[i]] % 65536
           /\ WordsDropped(raw, Len(regs)) = 0

LookupMatchesRawValue ==
    DecodedWith({1, 3}) /\ "lookup" \in DOMAIN bench.def =>
       LET regs == bench.def.registers
           lookup == bench.def.lookup
           word(i) == bench.map[regs[i]] % 65536
           \* the keys are below 2^16: the raw value equals k when its low
           \* word is k and the words above are 0
           Matches(e) == word(1) \in lookup[e].key /\ \A i \in 2..Len(regs) : word(i) = 0
           hits == {e \in 1..Len(lookup) : Matches(e)}
       IN  IF hits # {}
              THEN \E e \in hits : /\ \A f \in hits : e <= f
                                   /\ bench.result = Label(lookup[e].value)
              ELSE /\ bench.result.t = "unknown"
                   /\ \A i \in 1..Len(regs) : WordOf(bench.result.raw, i) = word(i)
                   /\ WordsDropped(bench.result.raw, Len(regs)) = 0

\* C29: for rule 5 the decoded string is, over the registers in listed
\* order, the character of the high byte then the character of the low byte,
\* zero bytes skipped, without the whitespace before its first and after its
\* last other character.
Rule5IsTrimmedAscii ==
    DecodedWith({5}) =>
       LET regs == bench.def.registers
           bytes == [j \in 1..(2 * Len(regs)) |->
                       LET r == bench.map[regs[(j + 1) \div 2]]
                       IN  IF j % 2 = 1 THEN (r \div 256) % 256 ELSE r % 256]
           NonZero(x) == x # 0
           cs == SelectSeq(bytes, NonZero)
           ink == {i \in 1..Len(cs) : cs[i] \notin WhiteSpace}
           first == CHOOSE i \in ink : \A k \in ink : i <= k
           last == CHOOSE i \in ink : \A k \in ink : k <= i
       IN  bench.result = Ascii(IF ink = {} THEN << >> ELSE SubSeq(cs, first, last))

\* registers 0x4142, 0x4344 give "ABCD"
Rule5IsTrimmedAsciiSeen ==
    /\ DecodedWith({5})
    /\ bench.def.registers = << 1, 2 >>
    /\ bench.map[1] = 16706
    /\ bench.map[2] = 17220
    /\ bench.result = Ascii(<< 65, 66, 67, 68 >>)

\* ------------------------------------------------------------------------
\* CRC-16/MODBUS
\* ------------------------------------------------------------------------
\* The reference: polynomial x^16 + x^15 + x^2 + 1 (0x8005) shifted high bit
\* first over a register started at 0xffff, every input byte and the final
\* register bit-reversed, no final XOR. The reflected form with 0xa001
\* computes the same function.
RECURSIVE Reflect(_, _)
Reflect(x, n) == IF n = 0 THEN 0 ELSE (x % 2) * (2 ^ (n - 1)) + Reflect(x \div 2, n - 1)

RECURSIVE RefShift(_, _)
RefShift(reg, j) ==
    IF j = 8 THEN reg
    ELSE RefShift(IF reg >= 32768 THEN Xor((reg * 2) % 65536, 32773) ELSE (reg * 2) % 65536, j + 1)

RECURSIVE RefFrom(_, _, _)
RefFrom(buf, i, reg) ==
    IF reg > 65535 \/ i > Len(buf) THEN reg
    ELSE RefFrom(buf, i + 1, RefShift(Xor(reg, Reflect(buf[i], 8) * 256), 0))

CrcModbus(buf) == Reflect(RefFrom(buf, 1, 65535), 16)

\* C28: crc16 is CRC-16/MODBUS: its result lies in 0 .. 65535 and is the
\* reference CRC of the bytes (0x4B37 for "123456789", 0xCDC5 for
\* 01 03 00 00 00 0A, 0xFFFF for no bytes); a frame of buildModbusRtuFrame
\* is slave id, function code, register and value high byte first, then the
\* CRC of these six bytes low byte first, and the CRC of all eight is 0.
Crc16IsModbus ==
    bench.t = "crc" /\ bench.pc = "done" =>
       IF bench.kind = "bytes"
          THEN /\ bench.crc \in 0..65535
               /\ bench.crc = CrcModbus(bench.buf)
               /\ bench.buf = << >> => bench.crc = 65535
               /\ bench.buf = << 1, 3, 0, 0, 0, 10 >> => bench.crc = 52677
               /\ bench.buf = << 49, 50, 51, 52, 53, 54, 55, 56, 57 >> => bench.crc = 19255
          ELSE LET a == bench.args
                   head == << a[1], a[2], a[3] \div 256, a[3] % 256, a[4] \div 256, a[4] % 256 >>
                   crc == CrcModbus(head)
               IN  /\ bench.frame = head \o << crc % 256, crc \div 256 >>
                   /\ CrcModbus(bench.frame) = 0
                   /\ bench.crc = 0

\* the frame of a read of 52 holding registers from 59 has been built and
\* its CRC over all eight bytes computed
Crc16IsModbusSeen ==
    /\ bench.t = "crc"
    /\ bench.pc = "done"
    /\ bench.kind = "frame"
    /\ bench.args = << 1, 3, 59, 52 >>
    /\ Len(bench.frame) = 8
    /\ bench.crc = 0

\* ------------------------------------------------------------------------
\* The solar window without coordinates
\* ------------------------------------------------------------------------
\* C24: without geographic coordinates a poll failure at local time t is
\* handled as a night failure exactly when t is before 06:00 or at or after
\* 19:00, and as a failure inside the solar window exactly when
\* 06:00 <= t < 19:00.
FallbackWindowSixToNineteen ==
    [][\A p \in Slots : \A err \in Errors :
         ~geo.known /\ Throws(p, err)
            => LET t == LocalMinutes(now)
               IN  polls'[p].pc = "zeroing" <=> (t < 6 * 60 \/ t >= 19 * 60)]_vars

\* ------------------------------------------------------------------------
\* The backoff timestamp
\* ------------------------------------------------------------------------
\* C27: the backoff timestamp is 0 or at most 30 minutes ahead; it changes
\* only to 0 (a restart of the device) or, when a night failure has been
\* handled, to the time of that + 30 minutes; no daytime failure and no
\* success (the return of readAll, a capability written) changes it; and a
\* timer tick at a time at or after the backoff timestamp with no poll in
\* flight starts a poll cycle.
BackoffIsNightPlusThirty ==
    /\ [](backoffUntil = 0 \/ backoffUntil <= now + NIGHT_BACKOFF_MS)
    /\ [][/\ backoffUntil' # backoffUntil
             => \/ backoffUntil' = 0
                \/ /\ backoffUntil' = now + NIGHT_BACKOFF_MS
                   /\ Night
                   /\ \E p \in Slots : polls[p].pc = "zeroing" /\ polls'[p].pc = "idle"
          /\ \A p \in Slots : \A err \in Errors :
               ~Night /\ Throws(p, err) => backoffUntil' = backoffUntil
          /\ \A p \in Slots :
               \/ polls[p].pc = "awaiting" /\ polls'[p].pc = "applying"
               \/ polls[p].pc = "applying" /\ polls'[p] # polls[p]
               => backoffUntil' = backoffUntil
          /\ (IntervalTick \/ InitialTick) /\ now >= backoffUntil /\ InFlight = {}
               => InFlight' # {} /\ polling']_vars

\* a night failure set the backoff, the clock reached it, and the tick that
\* followed started the one cycle now in flight
BackoffIsNightPlusThirtySeen ==
    /\ backoffUntil > 0
    /\ now >= backoffUntil
    /\ client = 0
    /\ Cardinality(InFlight) = 1
    /\ polling

\* ------------------------------------------------------------------------
\* The response timeout
\* ------------------------------------------------------------------------
\* C26: when the response timeout of an exchange expires, the exchange ends
\* with a timeout error, the connection of the exchange (the one its client
\* holds) is destroyed, and the exchange is over for good; and an exchange
\* that awaits its response ends in no other way than by a complete
\* response, a socket error, a socket close or the timeout.
TimeoutDestroysConnection ==
    [][\A p \in Slots :
         /\ ResponseTimeout(p)
              => LET c == polls[p].client
                 IN  /\ Throws(p, "Response timeout")
                     /\ socket[c].st = "open" /\ socket[c].by = p
                     /\ socket'[c] = NullSocket
                     /\ polls'[p].pc \notin {"connecting", "awaiting"}
         /\ polls[p].pc = "awaiting"
              /\ (polls'[p].pc # "awaiting" \/ polls'[p].idx # polls[p].idx
                     \/ polls'[p].issues # polls[p].issues)
              => \/ \E r \in Awaited(p) : \/ ReceiveUndecodable(p, r)
                                          \/ ReceiveError(p, r)
                                          \/ ReceiveValues(p, r)
                                          \/ ReceiveRetry(p, r)
                 \/ SocketError(p)
                 \/ SocketClose(p)
                 \/ ResponseTimeout(p)]_vars

\* ------------------------------------------------------------------------
\* The words a read returns
\* ------------------------------------------------------------------------
\* C30: when a well-formed response frame arrives that carries a read
\* response with n data words for the request awaited, RTU-shaped or
\* TCP-shaped, the read returns exactly these n words in order, whatever
\* their values, a last word of 0 included: the bytes dropped from the end of
\* the ADU are never register data.
ReadReturnsCarriedWords ==
    [][\A p \in Slots : \A k \in Images : \A shape \in {"rtu", "tcp"} :
         polls[p].pc = "awaiting"
            => LET req == Requests[polls[p].idx]
                   words == ImageWords(k, req)
                   adu == IF shape = "tcp" THEN TcpResponse(req.fc, words)
                                           ELSE RtuResponse(req.fc, words)
                   r == ReplyOf(V5Frame(V5_CTRL_RESPONSE, adu), req.fc)
               IN  ReceiveValues(p, r) \/ ReceiveRetry(p, r) \/ ReceiveError(p, r)
                      => /\ ReceiveValues(p, r)
                         /\ r.parse.values = words
                         /\ \A i \in 1..Len(words) : polls'[p].pc # "idle" /\ polls'[p].map # << >>
                               => polls'[p].map[req.start + i - 1] = words[i]]_vars

\* ------------------------------------------------------------------------
\* The keys of the register map
\* ------------------------------------------------------------------------
\* C25: when fetchRegisters returns, the keys of the register map are
\* exactly the addresses start .. start + count - 1 of the requests of the
\* cycle, whatever the number of data words the responses carried.
FetchedKeysAreRequested ==
    bench.t = "fetch" /\ bench.pc = "returned" =>
       DOMAIN bench.map =
          UNION {bench.requests[i].start .. (bench.requests[i].start + bench.requests[i].count - 1) :
                    i \in 1..Len(bench.requests)}

\* ------------------------------------------------------------------------
\* The response in chunks
\* ------------------------------------------------------------------------
\* C31: however the response bytes are split into chunks, the exchange
\* resolves at the first chunk after which 13 + payloadLen bytes have
\* accumulated (payloadLen little-endian in bytes 1..2), with exactly the
\* first 13 + payloadLen bytes, and not before.
ResolvesOnCompleteFrame ==
    bench.t = "stream" =>
       LET st == bench.stream
           full == 13 + st[2] + 256 * st[3]
       IN  IF bench.pc = "resolved"
              THEN /\ bench.received >= full
                   /\ bench.before < full
                   /\ bench.result = SubSeq(st, 1, full)
              ELSE Len(st) < 3 \/ bench.received < full

\* a frame followed by bytes of the next one, resolved by a chunk that
\* carried both, after an earlier chunk
ResolvesOnCompleteFrameSeen ==
    /\ bench.t = "stream"
    /\ bench.pc = "resolved"
    /\ bench.before > 3
    /\ bench.received > Len(bench.result)
    /\ Len(bench.result) = 40

\* ------------------------------------------------------------------------
\* The definitions the capability loop skips
\* ------------------------------------------------------------------------
\* C32: in a cycle whose readAll succeeded, the loop passes over exactly the
\* definitions whose value is absent, that have no capability binding or
\* whose capability the device lacks; passing over them changes no
\* capability value and not the last-known power; the next definition that
\* is none of these is written, and after the last one the cycle ends with
\* the in-flight flag cleared and the availability as it was.
SkippedDefinitionsLeaveNoTrace ==
    [][\A p \in Slots :
         LET leaving == polls[p].pc = "applying" /\ polls'[p].pc = "idle"
         IN  WriteEntered(p) \/ leaving
                => LET values == IF polls[p].pc = "applying" THEN polls[p].values
                                                             ELSE polls'[p].values
                       from == Passed(p)
                       to == IF polls'[p].pc = "applying" THEN polls'[p].j
                                                          ELSE Len(Definitions) + 1
                       capOf(k) == Definitions[k].homeyCapability
                       Skipped(k) == \/ capOf(k) = ""
                                     \/ values[k].t = "null"
                                     \/ capOf(k) \notin DeviceCaps
                   IN  /\ \A k \in (from + 1)..(to - 1) : Skipped(k)
                       /\ to <= Len(Definitions) => ~Skipped(to)
                       /\ \A c \in DeviceCaps :
                            to > Len(Definitions) \/ c # capOf(to) => caps'[c] = caps[c]
                       /\ lastPowerW' # lastPowerW => from >= 1 /\ capOf(from) = "measure_power"
                       /\ leaving => ~polling' /\ available' = available]_vars

\* a cycle has succeeded: the definition without a binding, the one with an
\* absent value and the one whose capability the device lacks were passed
\* over, the others were written
SkippedDefinitionsSeen ==
    /\ InFlight = {}
    /\ ~polling
    /\ available
    /\ caps["measure_frequency"] = Null
    /\ caps["meter_power"] # Null
    /\ caps["measure_power"] = Num(778810)
    /\ caps["measure_voltage.pv1"] # Null
    /\ lastPowerW = 778810

\* ------------------------------------------------------------------------
\* Function codes and the register map
\* ------------------------------------------------------------------------
\* C33: every definition is decoded from the word read with its own
\* function code: when two definitions name the same address under function
\* codes 3 and 4, each one decodes the word of its own register bank,
\* whatever the order of the requests.
DecodedFromOwnFunctionCode ==
    bench.t = "readAll" /\ bench.pc = "returned" =>
       \A i \in 1..Len(bench.definitions) :
          LET def == bench.definitions[i]
          IN  bench.result[i] = Num(100 * BankWord(FcOf(def), def.registers[1]))

\* ------------------------------------------------------------------------
\* Teardown
\* ------------------------------------------------------------------------
\* C34: once the device is torn down, no timer registered before the
\* teardown starts a poll cycle, the one-shot tick of onInit included, and
\* no exchange is issued for the device: no connection attempt begins and no
\* request is written.
NoPollAfterTeardown ==
    [][~pollTimer
         => /\ started' = started
            /\ \A p \in Slots :
                 /\ ~(polls[p].pc = "connecting" /\ polls'[p].pc = "awaiting")
                 /\ ~(polls'[p].pc = "connecting" /\ polls'[p] # polls[p])]_vars

\* ------------------------------------------------------------------------
\* Termination of a poll cycle
\* ------------------------------------------------------------------------
\* C35: every poll cycle that starts eventually finishes, whatever the
\* device does; the step that ends a cycle leaves the in-flight flag
\* cleared, on the success path and on every failure path (a failure ends
\* the cycle at once or after the zeroing of the night branch); and the flag
\* is never set while no cycle is in flight.
EveryCycleFinishes ==
    /\ \A p \in Slots : (polls[p].pc # "idle") ~> (polls[p].pc = "idle")
    /\ [][\A p \in Slots :
            /\ polls[p].pc # "idle" /\ polls'[p].pc = "idle" => ~polling'
            /\ Fails(p) => polls'[p].pc \in {"idle", "zeroing"}]_vars
    /\ [](InFlight = {} => ~polling)

\* the device never answered while it had been producing by day: the cycle
\* has ended with a timeout and the flag is clear
EveryCycleFinishesSeen ==
    /\ started >= 2
    /\ InFlight = {}
    /\ ~polling
    /\ ~available
    /\ unavailableMessage.error = "Response timeout"

====
